---- MODULE Spec2Model ----
(***************************************************************************)
(* Model of webdata.py: the DevTools request/response channel              *)
(* (WebDataExtractor and the capture commands built on it) and the         *)
(* cleanup policy engine (AutoCleaner).                                    *)
(***************************************************************************)
EXTENDS Integers, Sequences, FiniteSets, TLC

(***************************************************************************)
(* Bounds of the model.                                                    *)
(***************************************************************************)
\* unsolicited event messages the browser may push on one connection
MaxEvents == 2
\* send_command calls made directly on the extractor, outside a capture command
MaxDirect == 2

\* the clock advances this many scheduling intervals
MaxTicks == 1

\* scheduler threads created in one process
MaxThreads == 2

\* stream_worker threads created in one process
MaxWorkers == 2

\* frames one stream_worker saves
MaxFrames == 2

\* the longest a readyState call of wait_for_load takes, in half seconds
MaxCallTime == 1

VARIABLES
    now,            \* the clock: time.time(), in seconds
    fs,             \* the data and logs directories and their entries
    denied,         \* names of the entries on which unlink raises
    configFile,     \* the mapping webdata_config.json holds (empty: no file)
    rpc,            \* position of auto_cleanup
    trace,          \* the passes made: of the current run, or the last direct call
    run,            \* how the last auto_cleanup call ended, its config and clock
    ticks           \* scheduling intervals elapsed

cleanVars == <<now, fs, denied, configFile, rpc, trace, run, ticks>>

(***************************************************************************)
(* Part 1.  WebDataExtractor: the channel.                                 *)
(***************************************************************************)
VARIABLES
    websocket,      \* self.websocket: None or the connection object
    message_id,     \* self.message_id
    connState,      \* state of the stream behind self.websocket
    wire,           \* requests written and not yet handled by the browser
    inbound,        \* messages the browser delivered and recv() has not returned yet
    browserEnabled, \* the browser has enabled a domain, so it pushes events
    nEvents,        \* events pushed so far
    cmd,            \* the capture command being run
    pc,             \* position of the command's coroutine
    ip,             \* index of the current channel call in the command's script
    assigned,       \* ids placed in the request objects built so far
    written,        \* ids of the requests written to the stream
    nRead,          \* inbound messages consumed by recv()
    calls,          \* one record per send_command call that returned
    directResults,  \* outcome of each direct send_command call
    capture         \* what the command has gathered and how it ended

chanVars == <<websocket, message_id, connState, wire, inbound, browserEnabled,
              nEvents, cmd, pc, ip, assigned, written, nRead, calls, directResults,
              capture>>

\* the scheduler of the AutoCleaner and the default scheduler of the schedule module
VARIABLES
    is_running,     \* self.is_running
    thread,         \* self.thread: None or the number of the thread last created
    threads,        \* the scheduler threads created so far and what each is doing
    jobs            \* schedule.jobs: the jobs registered and never cancelled

schedVars == <<is_running, thread, threads, jobs>>

\* one call of execute_selenium_command
VARIABLES
    command,        \* the command string, as its words and the whitespace between them
    auto_capture,   \* the auto_capture argument
    rc,             \* position of the call
    todo,           \* the steps the call has still to make
    done,           \* the steps made so far, in order, and whether each raised
    result          \* what the call returned

remoteVars == <<command, auto_capture, rc, todo, done, result>>

\* the ScreenStreamer and its stream_worker threads
VARIABLES
    is_streaming,       \* self.is_streaming
    stream_thread,      \* self.stream_thread: None or the number of the thread last created
    save_frames,        \* self.save_frames
    latest_screenshot,  \* self.latest_screenshot
    workers             \* the stream_worker threads created so far and what each is doing

streamVars == <<is_streaming, stream_thread, save_frames, latest_screenshot, workers>>

\* two cleanups at work on the watched directories at once
VARIABLES
    walkers         \* the loop over the directories each of the two is in

walkVars == <<walkers>>

\* what the scheduler's actions leave alone besides the cleaner's state
besideScheduler == <<chanVars, remoteVars, streamVars, walkVars>>

\* what the cleaner's actions leave alone
besideCleaner == <<chanVars, schedVars, remoteVars, streamVars, walkVars>>

\* what the channel's actions leave alone
besideChannel == <<cleanVars, schedVars, remoteVars, streamVars, walkVars>>

None == "None"
Conn == "conn"

Commands == {"capture_page", "get_dom", "get_network", "get_text"}

\* enable_domains: one "<domain>.enable" call per domain, in this order
Domains == <<"Runtime", "Network", "Page", "DOM", "Console", "Performance">>

EnableCalls == [i \in 1..Len(Domains) |-> [fn |-> "enable_domains", method |-> "enable"]]

PageInfoCalls == <<[fn |-> "capture_page_info", method |-> "Runtime.evaluate"]>>

DomCalls == <<[fn |-> "capture_dom", method |-> "DOM.getDocument"],
              [fn |-> "capture_dom", method |-> "DOM.getOuterHTML"],
              [fn |-> "capture_dom", method |-> "Runtime.evaluate"],
              [fn |-> "capture_dom", method |-> "Runtime.evaluate"],
              [fn |-> "capture_dom", method |-> "Runtime.evaluate"]>>

NetworkCalls == <<[fn |-> "capture_network", method |-> "Runtime.evaluate"]>>

TextCalls == <<[fn |-> "_get_text", method |-> "Runtime.evaluate"]>>

\* the channel calls a command makes when nothing raises, in order
Script(c) ==
    CASE c = "capture_page" -> EnableCalls \o PageInfoCalls \o DomCalls \o NetworkCalls
      [] c = "get_dom"      -> EnableCalls \o PageInfoCalls \o DomCalls
      [] c = "get_network"  -> EnableCalls \o PageInfoCalls \o NetworkCalls
      [] c = "get_text"     -> EnableCalls \o TextCalls
      [] OTHER              -> << >>

\* mutant: only capture_page_info wraps its channel calls
CatchesPageInfoOnly(fn) == fn = "capture_page_info"

\* the sub-captures wrap their channel calls in try/except Exception
Catches(fn) == fn \in {"capture_page_info", "capture_dom", "capture_network"}

\* index of the first call after the calls of the function that call i belongs to
RECURSIVE AfterFn(_, _)
AfterFn(s, i) ==
    IF i < Len(s) /\ s[i + 1].fn = s[i].fn THEN AfterFn(s, i + 1) ELSE i + 1

\* what the browser answers to a request
ResultKind(method) ==
    IF method = "DOM.getDocument" THEN "document" ELSE "result"

\* mutant: the counter is bumped before the connection check
SendStartBumpFirst(ws, mid) ==
    IF ws = None THEN [raised |-> "Not connected to Chrome", message_id |-> mid + 1, id |-> mid + 1]
    ELSE [raised |-> "", message_id |-> mid + 1, id |-> mid + 1]

\* mutant: the request is built from the counter before it is incremented
SendStartStaleId(ws, mid) ==
    IF ws = None THEN [raised |-> "Not connected to Chrome", message_id |-> mid, id |-> mid]
    ELSE [raised |-> "", message_id |-> mid + 1, id |-> mid]

\* send_command up to the request object: the connection check, the counter, the id
SendStart(ws, mid) ==
    IF ws = None THEN [raised |-> "Not connected to Chrome", message_id |-> mid, id |-> mid]
    ELSE [raised |-> "", message_id |-> mid + 1, id |-> mid + 1]

\* mutant: recv() hands back the newest message and discards the backlog
AfterRecvDrain(inb) == << >>

\* the inbound stream after one recv()
AfterRecv(inb) == Tail(inb)

\* the message one recv() returns: the oldest one not read yet
Recv(inb) == Head(inb)

\* a command begins: domains not enabled, no sub-capture made (each will end
\* with a value or, after an exception, with its empty result), no sub-capture
\* failed, the data record not built, nothing written or printed
NoCapture ==
    [enabled |-> FALSE,
     subs |-> [fn \in {"capture_page_info", "capture_dom", "capture_network"} |-> "none"],
     failed |-> {},
     record |-> FALSE,
     outcome |-> "none"]

InitChannel ==
    /\ websocket = None
    /\ message_id = 0
    /\ connState = "none"
    /\ wire = << >>
    /\ inbound = << >>
    /\ browserEnabled = FALSE
    /\ nEvents = 0
    /\ cmd = "none"
    /\ pc = "idle"
    /\ ip = 0
    /\ assigned = << >>
    /\ written = << >>
    /\ nRead = 0
    /\ calls = << >>
    /\ directResults = << >>
    /\ capture = NoCapture

\* a value execute_selenium_command returns: its kind and the pieces of its text
Value(kind, parts) == [kind |-> kind, parts |-> parts]

\* execute_selenium_command has not been called
InitRemote ==
    /\ command = << >>
    /\ auto_capture = TRUE
    /\ rc = "idle"
    /\ todo = << >>
    /\ done = << >>
    /\ result = Value("unset", << >>)

\* ScreenStreamer.__init__: not streaming, no thread, no screenshot yet
\* (save_frames is first assigned by start_streaming)
InitStreamer ==
    /\ is_streaming = FALSE
    /\ stream_thread = 0
    /\ save_frames = FALSE
    /\ latest_screenshot = None
    /\ workers = << >>

\* the auto_cleanup run of the scheduler thread and the cleanup command in the
\* foreground: neither is in a loop over a directory
InitWalkers ==
    walkers = [w \in {"scheduler", "command"} |->
                  [pc |-> "idle", dirs |-> << >>, dir |-> "", listed |-> {}, cur |-> "",
                   every |-> FALSE, cutoff |-> 0, before |-> << >>,
                   removed |-> [data |-> {}, logs |-> {}], outcome |-> "none"]]

\* connect succeeds: self.websocket is the open connection to the first tab
ConnectOk(c) ==
    /\ pc = "idle"
    /\ cmd' = c
    /\ websocket' = Conn
    /\ connState' = "open"
    /\ pc' = "send"
    /\ ip' = 1
    /\ capture' = NoCapture
    /\ UNCHANGED <<message_id, wire, inbound, browserEnabled, nEvents, assigned,
                   written, nRead, calls, directResults>>
    /\ UNCHANGED besideChannel

\* connect fails (no browser, no tab, handshake refused): returns False, the command returns
ConnectFail(c) ==
    /\ pc = "idle"
    /\ cmd' = c
    /\ pc' = "aborted"
    /\ capture' = NoCapture
    /\ UNCHANGED <<websocket, message_id, connState, wire, inbound, browserEnabled,
                   nEvents, ip, assigned, written, nRead, calls, directResults>>
    /\ UNCHANGED besideChannel

\* an exception leaves call i: a sub-capture swallows it and the command goes on
\* with the next sub-capture; anywhere else it unwinds to the finally block
AfterRaise(i) ==
    IF Catches(Script(cmd)[i].fn)
    THEN IF AfterFn(Script(cmd), i) > Len(Script(cmd))
         THEN [pc |-> "save", ip |-> i]
         ELSE [pc |-> "send", ip |-> AfterFn(Script(cmd), i)]
    ELSE [pc |-> "closing", ip |-> i]

\* call i returned: the next call of the script, or the data record is built
\* and written or printed
AfterReturn(i) ==
    IF i = Len(Script(cmd)) THEN [pc |-> "save", ip |-> i]
    ELSE [pc |-> "send", ip |-> i + 1]

\* what the command has gathered once call i raised (raised) or returned
CaptureAfter(i, raised) ==
    LET fn == Script(cmd)[i].fn
        nxt == IF raised THEN AfterRaise(i) ELSE AfterReturn(i)
        c1 == IF raised
              THEN IF Catches(fn)
                   THEN [capture EXCEPT !.subs[fn] = "empty", !.failed = @ \cup {fn}]
                   ELSE [capture EXCEPT !.outcome = "raised",
                                        !.failed = IF fn \in DOMAIN capture.subs
                                                   THEN @ \cup {fn} ELSE @]
              ELSE IF AfterFn(Script(cmd), i) # i + 1 THEN capture
              ELSE IF fn = "enable_domains" THEN [capture EXCEPT !.enabled = TRUE]
              ELSE IF fn \in DOMAIN capture.subs THEN [capture EXCEPT !.subs[fn] = "value"]
              ELSE capture
    IN [c1 EXCEPT !.record = (nxt.pc = "save")]

\* send_command, first half: check, allocate the id, build and write the request
SendCommandWrite ==
    /\ pc = "send"
    /\ LET st == SendStart(websocket, message_id) IN
        /\ message_id' = st.message_id
        /\ IF st.raised # ""
           THEN /\ pc' = AfterRaise(ip).pc
                /\ ip' = AfterRaise(ip).ip
                /\ capture' = CaptureAfter(ip, TRUE)
                /\ UNCHANGED <<assigned, written, wire>>
           ELSE /\ assigned' = Append(assigned, st.id)
                /\ IF connState = "open"
                   THEN /\ written' = Append(written, st.id)
                        /\ wire' = Append(wire, [id |-> st.id, method |-> Script(cmd)[ip].method])
                        /\ pc' = "recv"
                        /\ ip' = ip
                        /\ UNCHANGED capture
                   ELSE \* websocket.send raises ConnectionClosed
                        /\ pc' = AfterRaise(ip).pc
                        /\ ip' = AfterRaise(ip).ip
                        /\ capture' = CaptureAfter(ip, TRUE)
                        /\ UNCHANGED <<written, wire>>
    /\ UNCHANGED <<websocket, connState, inbound, browserEnabled, nEvents, cmd,
                   nRead, calls, directResults>>
    /\ UNCHANGED besideChannel

\* send_command, second half: recv() returns the next inbound message, which is
\* parsed and handed to the caller
SendCommandRead ==
    /\ pc = "recv"
    /\ inbound # << >>
    /\ LET msg == Recv(inbound)
           \* capture_dom indexes doc_result["result"]["root"]["nodeId"]
           keyError == /\ Script(cmd)[ip].method = "DOM.getDocument"
                       /\ msg.kind # "document"
           nxt == IF keyError THEN AfterRaise(ip) ELSE AfterReturn(ip)
       IN /\ inbound' = AfterRecv(inbound)
          /\ nRead' = nRead + (Len(inbound) - Len(AfterRecv(inbound)))
          /\ calls' = Append(calls, [sent |-> written[Len(written)], got |-> msg.id, kind |-> msg.kind])
          /\ pc' = nxt.pc
          /\ ip' = nxt.ip
          /\ capture' = CaptureAfter(ip, keyError)
    /\ UNCHANGED <<websocket, message_id, connState, wire, browserEnabled, nEvents,
                   cmd, assigned, written, directResults>>
    /\ UNCHANGED besideChannel

\* recv() on a connection that was lost raises ConnectionClosed
SendCommandReadFails ==
    /\ pc = "recv"
    /\ connState = "closed"
    /\ pc' = AfterRaise(ip).pc
    /\ ip' = AfterRaise(ip).ip
    /\ capture' = CaptureAfter(ip, TRUE)
    /\ UNCHANGED <<websocket, message_id, connState, wire, inbound, browserEnabled,
                   nEvents, cmd, assigned, written, nRead, calls, directResults>>
    /\ UNCHANGED besideChannel

\* the data record is written by save_data, or printed in stream mode
SaveData ==
    /\ pc = "save"
    /\ capture' = [capture EXCEPT !.outcome = "saved"]
    /\ pc' = "closing"
    /\ UNCHANGED <<websocket, message_id, connState, wire, inbound, browserEnabled,
                   nEvents, cmd, ip, assigned, written, nRead, calls, directResults>>
    /\ UNCHANGED besideChannel

\* mutant: the command has no finally block, the exception of save_data ends it
SaveDataFailsNoFinally ==
    /\ pc = "save"
    /\ capture' = [capture EXCEPT !.outcome = "save failed"]
    /\ pc' = "done"
    /\ UNCHANGED <<websocket, message_id, connState, wire, inbound, browserEnabled,
                   nEvents, cmd, ip, assigned, written, nRead, calls, directResults>>
    /\ UNCHANGED besideChannel

\* save_data raises (the file cannot be opened or written): the exception
\* unwinds to the finally block
SaveDataFails ==
    /\ pc = "save"
    /\ capture' = [capture EXCEPT !.outcome = "save failed"]
    /\ pc' = "closing"
    /\ UNCHANGED <<websocket, message_id, connState, wire, inbound, browserEnabled,
                   nEvents, cmd, ip, assigned, written, nRead, calls, directResults>>
    /\ UNCHANGED besideChannel

\* the finally block: extractor.close()
Close ==
    /\ pc = "closing"
    /\ connState' = IF websocket # None THEN "closed" ELSE connState
    /\ pc' = "done"
    /\ UNCHANGED <<websocket, message_id, wire, inbound, browserEnabled, nEvents, cmd,
                   ip, assigned, written, nRead, calls, directResults,
                   capture>>
    /\ UNCHANGED besideChannel

\* send_command called on the extractor outside a running command: before
\* connect, after a failed connect, or after close()
DirectSend ==
    /\ pc \in {"idle", "aborted", "done"}
    /\ Len(directResults) < MaxDirect
    /\ LET st == SendStart(websocket, message_id) IN
        /\ message_id' = st.message_id
        /\ IF st.raised # ""
           THEN /\ directResults' = Append(directResults, st.raised)
                /\ UNCHANGED assigned
           ELSE \* the connection is closed here: websocket.send raises
                /\ assigned' = Append(assigned, st.id)
                /\ directResults' = Append(directResults, "ConnectionClosed")
    /\ UNCHANGED <<websocket, connState, wire, inbound, browserEnabled, nEvents, cmd,
                   pc, ip, written, nRead, calls,
                   capture>>
    /\ UNCHANGED besideChannel

\* the browser answers the oldest request it has not answered
BrowserRespond ==
    /\ connState = "open"
    /\ wire # << >>
    /\ inbound' = Append(inbound, [id |-> Head(wire).id, kind |-> ResultKind(Head(wire).method)])
    /\ wire' = Tail(wire)
    /\ browserEnabled' = (browserEnabled \/ Head(wire).method = "enable")
    /\ UNCHANGED <<websocket, message_id, connState, nEvents, cmd, pc, ip, assigned,
                   written, nRead, calls, directResults,
                   capture>>
    /\ UNCHANGED besideChannel

\* the browser pushes an event of an enabled domain: a message without an id
BrowserEvent ==
    /\ connState = "open"
    /\ browserEnabled
    /\ nEvents < MaxEvents
    /\ inbound' = Append(inbound, [id |-> 0, kind |-> "event"])
    /\ nEvents' = nEvents + 1
    /\ UNCHANGED <<websocket, message_id, connState, wire, browserEnabled, cmd, pc, ip,
                   assigned, written, nRead, calls, directResults,
                   capture>>
    /\ UNCHANGED besideChannel

\* the browser or the network closes the connection
Drop ==
    /\ connState = "open"
    /\ pc \in {"send", "recv"}
    /\ connState' = "closed"
    /\ UNCHANGED <<websocket, message_id, wire, inbound, browserEnabled, nEvents, cmd,
                   pc, ip, assigned, written, nRead, calls, directResults,
                   capture>>
    /\ UNCHANGED besideChannel

NextChannel ==
    \/ \E c \in Commands : ConnectOk(c)
    \/ \E c \in Commands : ConnectFail(c)
    \/ SendCommandWrite
    \/ SendCommandRead
    \/ SendCommandReadFails
    \/ SaveData
    \/ SaveDataFails
    \/ Close
    \/ DirectSend
    \/ BrowserRespond
    \/ BrowserEvent
    \/ Drop

vars == <<chanVars, cleanVars, schedVars, remoteVars, streamVars, walkVars>>

(***************************************************************************)
(* Part 2.  AutoCleaner: the cleanup policy engine.                        *)
(***************************************************************************)

SecondsPerHour == 3600
BytesPerMB == 1048576

\* the clock reading (time.time(), in seconds) of the initial state
InitialNow == 200 * SecondsPerHour

ConfigFields == {"auto_cleanup_enabled", "cleanup_interval_hours", "max_file_age_hours",
                 "max_files_count", "max_total_size_mb"}

\* default_config of load_config
DefaultConfig ==
    [auto_cleanup_enabled |-> TRUE,
     cleanup_interval_hours |-> 24,
     max_file_age_hours |-> 48,
     max_files_count |-> 100,
     max_total_size_mb |-> 100]

\* a settings file json.load cannot turn into a mapping: not JSON, or not an object
Unreadable == [corrupt |-> TRUE]

\* the try block of load_config gets as far as the merge
Readable(cf) == "corrupt" \notin DOMAIN cf

\* mutant: the merge is written the other way round, {**config, **default_config}
LoadConfigDefaultsWin(cf) == DefaultConfig

\* load_config: {**default_config, **config}; the file is a mapping that may
\* hold any of the fields, and no file is the empty mapping; whatever the try
\* block raises is swallowed and default_config is returned
LoadConfig(cf) ==
    IF Readable(cf)
    THEN [k \in ConfigFields |-> IF k \in DOMAIN cf THEN cf[k] ELSE DefaultConfig[k]]
    ELSE DefaultConfig

\* a directory entry: a regular file or a sub-directory, with st_mtime and st_size
Entry(name, kind, ageHours, size) ==
    [name |-> name, kind |-> kind, mtime |-> InitialNow - ageHours * SecondsPerHour,
     size |-> size]

\* Path.is_file()
IsFile(e) == e.kind = "file"

\* the entries the data directory can hold in the initial state
DataUniverse ==
    {Entry("d1", "file", 1, BytesPerMB),
     Entry("d2", "file", 10, 0),
     Entry("d3", "file", 30, BytesPerMB + 524288),
     Entry("d4", "file", 50, BytesPerMB),
     Entry("d5", "file", 70, 2 * BytesPerMB)}

\* the entries the logs directory can hold in the initial state
LogsUniverse ==
    {Entry("auto_cleanup.log", "file", 48, 100),
     Entry("l1", "file", 70, BytesPerMB),
     Entry("l2", "file", 70, 1),
     Entry("archive", "dir", 70, 0)}

\* the values the three limits are drawn from
AgeChoices == {48, 60}
CountChoices == {0, 2, 100}
SizeChoices == {0, 1, 3}

AbsentDir == [exists |-> FALSE, files |-> {}]

DirChoices(U) == {AbsentDir} \cup {[exists |-> TRUE, files |-> S] : S \in SUBSET U}

RECURSIVE SumSize(_)
SumSize(S) ==
    IF S = {} THEN 0
    ELSE LET e == CHOOSE x \in S : TRUE IN e.size + SumSize(S \ {e})

\* every order in which iterdir() can yield the entries of a directory
RECURSIVE IterOrders(_)
IterOrders(S) ==
    IF S = {} THEN {<< >>}
    ELSE UNION {{<<e>> \o s : s \in IterOrders(S \ {e})} : e \in S}

\* files.sort(key=st_mtime) of a list in iterdir order: oldest first, entries
\* of equal mtime in the order iterdir gave them
SortedByMtime(F) ==
    {s \in IterOrders(F) : \A i \in 1..(Len(s) - 1) : s[i].mtime <= s[i + 1].mtime}

\* cutoff_time of cleanup_old_files
CutoffTime(current_time, max_age_hours) == current_time - (max_age_hours * SecondsPerHour)

\* mutant: the comparison admits the file whose mtime equals the cutoff
IsOldInclusive(e, cutoff_time) == e.mtime <= cutoff_time

\* file_time < cutoff_time
IsOld(e, cutoff_time) == e.mtime < cutoff_time

\* mutant: after a deletion the loop skips the entry that follows
RECURSIVE AgeLoopSkipsNext(_, _, _, _)
AgeLoopSkipsNext(s, cutoff_time, den, removed) ==
    IF s = << >> THEN [removed |-> removed, raised |-> FALSE]
    ELSE IF IsFile(Head(s)) /\ IsOld(Head(s), cutoff_time)
         THEN IF Head(s).name \in den
              THEN [removed |-> removed, raised |-> TRUE]
              ELSE AgeLoopSkipsNext(IF Len(s) > 1 THEN Tail(Tail(s)) ELSE << >>,
                                    cutoff_time, den, removed \cup {Head(s)})
         ELSE AgeLoopSkipsNext(Tail(s), cutoff_time, den, removed)

\* the loop of cleanup_old_files over one directory, entries in iterdir order s;
\* unlink raises on the entries named in den
RECURSIVE AgeLoop(_, _, _, _)
AgeLoop(s, cutoff_time, den, removed) ==
    IF s = << >> THEN [removed |-> removed, raised |-> FALSE]
    ELSE IF IsFile(Head(s)) /\ IsOld(Head(s), cutoff_time)
         THEN IF Head(s).name \in den
              THEN [removed |-> removed, raised |-> TRUE]
              ELSE AgeLoop(Tail(s), cutoff_time, den, removed \cup {Head(s)})
         ELSE AgeLoop(Tail(s), cutoff_time, den, removed)

\* cleanup_old_files on one directory: every outcome the iteration order allows
AgeDir(files, cutoff_time, den) ==
    {AgeLoop(s, cutoff_time, den, {}) : s \in IterOrders(files)}

\* Python's seq[:k]
PySliceTo(s, k) ==
    LET n == Len(s)
        stop == IF k < 0 THEN (IF n + k < 0 THEN 0 ELSE n + k)
                ELSE (IF k > n THEN n ELSE k)
    IN SubSeq(s, 1, stop)

\* files_to_remove = files[:-max_files]
FilesToRemove(files, max_files) == PySliceTo(files, 0 - max_files)

\* for file_path in files_to_remove: ... unlink
RECURSIVE UnlinkInOrder(_, _, _)
UnlinkInOrder(s, den, removed) ==
    IF s = << >> THEN [removed |-> removed, raised |-> FALSE]
    ELSE IF Head(s).name \in den
         THEN [removed |-> removed, raised |-> TRUE]
         ELSE UnlinkInOrder(Tail(s), den, removed \cup {Head(s)})

\* cleanup_by_count on one directory
CountDir(files, max_files, den) ==
    LET F == {e \in files : IsFile(e)} IN
    IF Cardinality(F) <= max_files
    THEN {[removed |-> {}, raised |-> FALSE]}
    ELSE {UnlinkInOrder(FilesToRemove(s, max_files), den, {}) : s \in SortedByMtime(F)}

\* mutant: the loop stops only once the size is strictly below the cap
RECURSIVE SizeLoopStrict(_, _, _, _, _)
SizeLoopStrict(s, current_size, max_size_bytes, den, removed) ==
    IF s = << >> \/ current_size < max_size_bytes
    THEN [removed |-> removed, raised |-> FALSE]
    ELSE IF Head(s).name \in den
         THEN [removed |-> removed, raised |-> TRUE]
         ELSE SizeLoopStrict(Tail(s), current_size - Head(s).size, max_size_bytes, den,
                             removed \cup {Head(s)})

\* the deletion loop of cleanup_by_size over the sorted list s
RECURSIVE SizeLoop(_, _, _, _, _)
SizeLoop(s, current_size, max_size_bytes, den, removed) ==
    IF s = << >> \/ current_size <= max_size_bytes
    THEN [removed |-> removed, raised |-> FALSE]
    ELSE IF Head(s).name \in den
         THEN [removed |-> removed, raised |-> TRUE]
         ELSE SizeLoop(Tail(s), current_size - Head(s).size, max_size_bytes, den,
                       removed \cup {Head(s)})

\* cleanup_by_size on one directory
SizeDir(files, max_size_mb, den) ==
    LET F == {e \in files : IsFile(e)}
        max_size_bytes == max_size_mb * BytesPerMB
        total_size == SumSize(F)
    IN IF F = {} \/ total_size <= max_size_bytes
       THEN {[removed |-> {}, raised |-> FALSE]}
       ELSE {SizeLoop(s, total_size, max_size_bytes, den, {}) : s \in SortedByMtime(F)}

\* what a pass does to one directory: a missing directory is skipped
OnDir(dir, outcomes) ==
    IF dir.exists THEN outcomes ELSE {[removed |-> {}, raised |-> FALSE]}

Without(dir, removed) == [dir EXCEPT !.files = @ \ removed]

\* for directory in [self.data_dir, self.logs_dir]: the data directory first;
\* an exception in it leaves the pass before the logs directory is looked at
OverDirs(f, dataOuts, logsOuts) ==
    UNION {IF od.raised
           THEN {[fs |-> [f EXCEPT !.data = Without(@, od.removed)], raised |-> TRUE,
                  removed |-> [data |-> od.removed, logs |-> {}]]}
           ELSE {[fs |-> [data |-> Without(f.data, od.removed),
                          logs |-> Without(f.logs, ol.removed)],
                  raised |-> ol.raised,
                  removed |-> [data |-> od.removed, logs |-> ol.removed]]
                 : ol \in OnDir(f.logs, logsOuts)}
           : od \in OnDir(f.data, dataOuts)}

\* cleanup_old_files(max_age_hours) at clock reading t
CleanupOldFiles(f, t, max_age_hours, den) ==
    OverDirs(f, AgeDir(f.data.files, CutoffTime(t, max_age_hours), den),
                AgeDir(f.logs.files, CutoffTime(t, max_age_hours), den))

\* cleanup_by_count(max_files)
CleanupByCount(f, max_files, den) ==
    OverDirs(f, CountDir(f.data.files, max_files, den),
                CountDir(f.logs.files, max_files, den))

\* cleanup_by_size(max_size_mb)
CleanupBySize(f, max_size_mb, den) ==
    OverDirs(f, SizeDir(f.data.files, max_size_mb, den),
                SizeDir(f.logs.files, max_size_mb, den))

\* the record kept of one pass
PassRecord(pass, arg, o, again) ==
    [pass |-> pass, arg |-> arg, now |-> now, before |-> fs, after |-> o.fs,
     raised |-> o.raised, removed |-> o.removed, again |-> again,
     prior |-> IF again
               THEN Cardinality(trace[Len(trace)].removed.data)
                    + Cardinality(trace[Len(trace)].removed.logs)
               ELSE 0]

\* this call follows, with nothing in between, a call of the same pass with the
\* same argument that returned at the same clock reading
Again(pass, arg) ==
    /\ trace # << >>
    /\ trace[Len(trace)].pass = pass
    /\ trace[Len(trace)].arg = arg
    /\ trace[Len(trace)].now = now
    /\ ~trace[Len(trace)].raised

NoRun == [outcome |-> "none", config |-> DefaultConfig, now |-> InitialNow]

\* AutoCleaner.__init__: no scheduler thread yet, and no job registered
InitSchedulerOff ==
    /\ is_running = FALSE
    /\ thread = 0
    /\ threads = << >>
    /\ jobs = << >>

InitCleanerFixed ==
    /\ now = InitialNow
    /\ fs = [data |-> [exists |-> TRUE, files |-> {}], logs |-> AbsentDir]
    /\ denied = {}
    /\ configFile = << >>
    /\ rpc = "idle"
    /\ trace = << >>
    /\ run = NoRun
    /\ ticks = 0
    /\ InitSchedulerOff

\* the directories hold anything earlier invocations left; unlink fails on at
\* most one entry
InitFiles ==
    /\ now = InitialNow
    /\ \E d \in DirChoices(DataUniverse), l \in DirChoices(LogsUniverse) :
           fs = [data |-> d, logs |-> l]
    /\ denied \in {{}, {"d4"}, {"l1"}}
    /\ rpc = "idle"
    /\ trace = << >>
    /\ run = NoRun
    /\ ticks = 0
    /\ InitSchedulerOff

InitPasses == InitChannel /\ InitRemote /\ InitStreamer /\ InitWalkers /\ InitFiles /\ configFile = << >>

\* a direct call of cleanup_old_files
CallCleanupOldFiles(h) ==
    /\ rpc = "idle"
    /\ \E o \in CleanupOldFiles(fs, now, h, denied) :
        /\ fs' = o.fs
        /\ trace' = <<PassRecord("age", h, o, Again("age", h))>>
    /\ UNCHANGED <<now, denied, configFile, rpc, run, ticks>>
    /\ UNCHANGED besideCleaner

\* a direct call of cleanup_by_count
CallCleanupByCount(n) ==
    /\ rpc = "idle"
    /\ \E o \in CleanupByCount(fs, n, denied) :
        /\ fs' = o.fs
        /\ trace' = <<PassRecord("count", n, o, Again("count", n))>>
    /\ UNCHANGED <<now, denied, configFile, rpc, run, ticks>>
    /\ UNCHANGED besideCleaner

\* a direct call of cleanup_by_size
CallCleanupBySize(m) ==
    /\ rpc = "idle"
    /\ \E o \in CleanupBySize(fs, m, denied) :
        /\ fs' = o.fs
        /\ trace' = <<PassRecord("size", m, o, Again("size", m))>>
    /\ UNCHANGED <<now, denied, configFile, rpc, run, ticks>>
    /\ UNCHANGED besideCleaner

\* the clock advances by one scheduling interval
Tick ==
    /\ rpc = "idle"
    /\ ticks < MaxTicks
    /\ ticks' = ticks + 1
    /\ now' = now + DefaultConfig.cleanup_interval_hours * SecondsPerHour
    /\ UNCHANGED <<fs, denied, configFile, rpc, trace, run>>
    /\ UNCHANGED besideCleaner

NextPasses ==
    \/ \E h \in AgeChoices : CallCleanupOldFiles(h)
    \/ \E n \in CountChoices : CallCleanupByCount(n)
    \/ \E m \in SizeChoices : CallCleanupBySize(m)
    \/ Tick

SpecPasses == InitPasses /\ [][NextPasses]_vars

\* number of decimal digits of n, as str(n) writes it
RECURSIVE Digits(_)
Digits(n) == IF n < 10 THEN 1 ELSE 1 + Digits(n \div 10)

\* length of f"{timestamp}: Cleaned {n} files ({total} bytes)\n", the timestamp
\* being "%Y-%m-%d %H:%M:%S"
LogLineLen(n, total) == 19 + 10 + Digits(n) + 8 + Digits(total) + 8

LogName == "auto_cleanup.log"

\* open(log_file, "a") and one write: the file is created or grows, after
\* logs_dir.mkdir(exist_ok=True)
AppendLog(dir, t, len) ==
    LET old == {e \in dir.files : e.name = LogName}
        size == IF old = {} THEN 0 ELSE (CHOOSE e \in old : TRUE).size
    IN [exists |-> TRUE,
        files |-> (dir.files \ old) \cup
                  {[name |-> LogName, kind |-> "file", mtime |-> t, size |-> size + len]}]

\* the paths a pass returned in its cleaned_files list
Paths(removed) ==
    {<<"data", e.name>> : e \in removed.data} \cup {<<"logs", e.name>> : e \in removed.logs}

\* the byte total a pass returned
Bytes(removed) == SumSize(removed.data) + SumSize(removed.logs)

\* the settings files SpecCleanup starts from: none, unreadable, cleanup
\* disabled, or the three limits set
ConfigFiles ==
    {<< >>, Unreadable, [auto_cleanup_enabled |-> FALSE]} \cup
    {[max_file_age_hours |-> a, max_files_count |-> c, max_total_size_mb |-> m] :
        a \in AgeChoices, c \in CountChoices, m \in SizeChoices}

InitCleanup == InitChannel /\ InitRemote /\ InitStreamer /\ InitWalkers /\ InitFiles /\ configFile \in ConfigFiles

\* auto_cleanup: load the configuration; return at once when cleanup is disabled
RunStartBody ==
    /\ rpc = "idle"
    /\ LET config == LoadConfig(configFile) IN
        IF ~config.auto_cleanup_enabled
        THEN /\ run' = [outcome |-> "disabled", config |-> config, now |-> now]
             /\ rpc' = "idle"
        ELSE /\ run' = [outcome |-> "running", config |-> config, now |-> now]
             /\ rpc' = "age"
    /\ trace' = << >>
    /\ UNCHANGED <<now, fs, denied, configFile, ticks>>
    /\ UNCHANGED besideScheduler

\* auto_cleanup called in the foreground (autoclean run, cleanup --auto)
RunStart == RunStartBody /\ UNCHANGED schedVars

\* a pass of the run ended: the next pass, or the except clause when it raised
AfterPass(o, next) ==
    /\ fs' = o.fs
    /\ IF o.raised
       THEN /\ rpc' = "idle"
            /\ run' = [run EXCEPT !.outcome = "error"]
       ELSE /\ rpc' = next
            /\ UNCHANGED run

\* auto_cleanup: age_files, age_size = self.cleanup_old_files(...)
RunAge ==
    /\ rpc = "age"
    /\ \E o \in CleanupOldFiles(fs, now, run.config.max_file_age_hours, denied) :
        /\ AfterPass(o, "count")
        /\ trace' = Append(trace, PassRecord("age", run.config.max_file_age_hours, o, FALSE))
    /\ UNCHANGED <<now, denied, configFile, ticks>>
    /\ UNCHANGED besideCleaner

\* auto_cleanup: count_files, count_size = self.cleanup_by_count(...)
RunCount ==
    /\ rpc = "count"
    /\ \E o \in CleanupByCount(fs, run.config.max_files_count, denied) :
        /\ AfterPass(o, "size")
        /\ trace' = Append(trace, PassRecord("count", run.config.max_files_count, o, FALSE))
    /\ UNCHANGED <<now, denied, configFile, ticks>>
    /\ UNCHANGED besideCleaner

\* auto_cleanup: size_files, size_size = self.cleanup_by_size(...)
RunSize ==
    /\ rpc = "size"
    /\ \E o \in CleanupBySize(fs, run.config.max_total_size_mb, denied) :
        /\ AfterPass(o, "report")
        /\ trace' = Append(trace, PassRecord("size", run.config.max_total_size_mb, o, FALSE))
    /\ UNCHANGED <<now, denied, configFile, ticks>>
    /\ UNCHANGED besideCleaner

\* list(set(age_files + count_files + size_files))
AllCleanedFiles(tr) == UNION {Paths(tr[i].removed) : i \in DOMAIN tr}

\* age_size + count_size + size_size
RECURSIVE TotalSize(_)
TotalSize(tr) == IF tr = << >> THEN 0 ELSE Bytes(Head(tr).removed) + TotalSize(Tail(tr))

\* auto_cleanup: combine the results; when anything was removed, print and
\* append the line to logs/auto_cleanup.log
RunReport ==
    /\ rpc = "report"
    /\ fs' = IF AllCleanedFiles(trace) # {}
             THEN [fs EXCEPT !.logs = AppendLog(@, now,
                        LogLineLen(Cardinality(AllCleanedFiles(trace)), TotalSize(trace)))]
             ELSE fs
    /\ rpc' = "idle"
    /\ run' = [run EXCEPT !.outcome = "completed"]
    /\ UNCHANGED <<now, denied, configFile, trace, ticks>>
    /\ UNCHANGED besideCleaner

NextCleanup ==
    \/ RunStart
    \/ RunAge
    \/ RunCount
    \/ RunSize
    \/ RunReport
    \/ Tick

SpecCleanup == InitCleanup /\ [][NextCleanup]_vars

\* save_data of a capture command run by another invocation while the run is
\* between two passes: open(filepath, 'w') creates or truncates data/<name>;
\* the same capture writes the same bytes again
SaveDataFile(name) ==
    /\ rpc \in {"count", "size"}
    /\ \E u \in DataUniverse :
        /\ u.name = name
        /\ fs' = [fs EXCEPT !.data =
                     [exists |-> TRUE,
                      files |-> {e \in @.files : e.name # name} \cup
                                {[name |-> name, kind |-> "file", mtime |-> now,
                                  size |-> u.size]}]]
    /\ UNCHANGED <<now, denied, configFile, rpc, trace, run, ticks>>
    /\ UNCHANGED besideCleaner

\* the default output names the capture commands write to
OutputNames == {"d4", "d5"}

\* a run beside capture commands: data/ holds three earlier outputs
InitReport ==
    /\ InitChannel
    /\ InitRemote /\ InitStreamer /\ InitWalkers
    /\ InitSchedulerOff
    /\ now = InitialNow
    /\ fs = [data |-> [exists |-> TRUE,
                       files |-> {e \in DataUniverse : e.name \in {"d1", "d4", "d5"}}],
             logs |-> [exists |-> TRUE, files |-> {e \in LogsUniverse : e.name = "l1"}]]
    /\ denied = {}
    /\ configFile \in ConfigFiles
    /\ rpc = "idle"
    /\ trace = << >>
    /\ run = NoRun
    /\ ticks = 0

\* the one run of the invocation (autoclean run, cleanup --auto)
RunOnce == run.outcome = "none" /\ RunStart

NextReport ==
    \/ RunOnce
    \/ RunAge
    \/ RunCount
    \/ RunSize
    \/ RunReport
    \/ \E name \in OutputNames : SaveDataFile(name)

SpecReport == InitReport /\ [][NextReport]_vars

(***************************************************************************)
(* Part 3.  The cleanup scheduler: start_scheduler, stop_scheduler, the    *)
(* polling threads and the jobs of the schedule module.                    *)
(***************************************************************************)

\* a thread made by threading.Thread(target=run_scheduler): it is about to
\* evaluate `while self.is_running`; runnable is the list run_pending works
\* through, last the job call that came back last
NewThread ==
    [pc |-> "check", runnable |-> << >>, last |-> [outcome |-> "none", job |-> 0, at |-> 0]]

\* schedule.every(interval).hours.do(self.auto_cleanup) at clock reading t
NewJob(interval, t) == [interval |-> interval, next_run |-> t + interval * SecondsPerHour]

\* the scheduler's state when nothing is started: the flag is as given
NotStarted(running) ==
    [is_running |-> running, thread |-> thread, threads |-> threads, jobs |-> jobs]

\* mutant: start_scheduler does not look at auto_cleanup_enabled
StartedWhateverConfig(running, th, cf) ==
    IF running
    THEN [is_running |-> running, thread |-> thread, threads |-> threads, jobs |-> jobs]
    ELSE [is_running |-> TRUE,
          thread |-> Len(threads) + 1,
          threads |-> Append(threads, NewThread),
          jobs |-> Append(jobs, NewJob(LoadConfig(cf).cleanup_interval_hours, now))]

\* start_scheduler entered with self.is_running = running and self.thread = th
\* while the settings file is cf
Started(running, th, cf) ==
    IF running \/ ~LoadConfig(cf).auto_cleanup_enabled
    THEN NotStarted(running)
    ELSE [is_running |-> TRUE,
          thread |-> Len(threads) + 1,
          threads |-> Append(threads, NewThread),
          jobs |-> Append(jobs, NewJob(LoadConfig(cf).cleanup_interval_hours, now))]

\* autoclean start, and main() at process start
StartScheduler ==
    /\ Len(threads) < MaxThreads
    /\ LET s == Started(is_running, thread, configFile) IN
        /\ is_running' = s.is_running
        /\ thread' = s.thread
        /\ threads' = s.threads
        /\ jobs' = s.jobs
    /\ UNCHANGED cleanVars
    /\ UNCHANGED besideScheduler

\* autoclean stop: the flag is cleared; join(timeout=1) comes back within a
\* second whether or not the thread has ended
StopScheduler ==
    /\ is_running' = FALSE
    /\ UNCHANGED <<thread, threads, jobs>>
    /\ UNCHANGED cleanVars
    /\ UNCHANGED besideScheduler

\* the settings autoclean config can write
ConfigCommands ==
    {[auto_cleanup_enabled |-> e,
      cleanup_interval_hours |-> 24,
      max_file_age_hours |-> 48,
      max_files_count |-> 100,
      max_total_size_mb |-> 100] : e \in BOOLEAN}

\* autoclean config: save the settings; a running scheduler is stopped and,
\* when cleanup is enabled, started again
AutocleanConfig(c) ==
    /\ Len(threads) < MaxThreads
    /\ configFile' = c
    /\ LET s == IF ~is_running THEN NotStarted(FALSE)
                ELSE IF c.auto_cleanup_enabled THEN Started(FALSE, thread, c)
                ELSE NotStarted(FALSE)
       IN /\ is_running' = s.is_running
          /\ thread' = s.thread
          /\ threads' = s.threads
          /\ jobs' = s.jobs
    /\ UNCHANGED <<now, fs, denied, rpc, trace, run, ticks>>
    /\ UNCHANGED besideScheduler

\* mutant: the job function lets the exception of a failed run out
JobFuncEndsRaising(outcome) == IF outcome = "error" THEN "raised" ELSE "returned"

\* how the call of the job function, auto_cleanup, ends for run_pending: its
\* except clause swallows what the passes raise
JobFuncEnds(outcome) == "returned"

\* the indices of the jobs that should run at clock reading t, by next_run,
\* jobs of equal next_run in the order they were registered
RECURSIVE SortedDue(_, _)
SortedDue(js, D) ==
    IF D = {} THEN << >>
    ELSE LET j == CHOOSE x \in D : \A y \in D :
                      \/ js[x].next_run < js[y].next_run
                      \/ js[x].next_run = js[y].next_run /\ x <= y
         IN <<j>> \o SortedDue(js, D \ {j})

Runnable(js, t) == SortedDue(js, {j \in DOMAIN js : t >= js[j].next_run})

\* while self.is_running: the loop goes on, or the thread ends
ThreadCheck(t) ==
    /\ threads[t].pc = "check"
    /\ threads' = [threads EXCEPT ![t].pc = IF is_running THEN "pending" ELSE "exited"]
    /\ UNCHANGED <<is_running, thread, jobs>>
    /\ UNCHANGED cleanVars
    /\ UNCHANGED besideScheduler

\* schedule.run_pending(): the jobs that should run are collected
ThreadRunPending(t) ==
    /\ threads[t].pc = "pending"
    /\ threads' = [threads EXCEPT ![t].runnable = Runnable(jobs, now),
                                  ![t].pc = IF Runnable(jobs, now) = << >>
                                            THEN "sleep" ELSE "call"]
    /\ UNCHANGED <<is_running, thread, jobs>>
    /\ UNCHANGED cleanVars
    /\ UNCHANGED besideScheduler

\* job.run(): the thread calls auto_cleanup
ThreadCallJob(t) ==
    /\ threads[t].pc = "call"
    /\ \A u \in DOMAIN threads : threads[u].pc # "job"
    /\ RunStartBody
    /\ threads' = [threads EXCEPT ![t].pc = "job"]
    /\ UNCHANGED <<is_running, thread, jobs>>

\* auto_cleanup came back to job.run(): the job is given its next run time and
\* run_pending goes on with the next runnable job, then the thread sleeps; an
\* exception out of the job function would end the thread instead
JobReturns(t) ==
    /\ threads[t].pc = "job"
    /\ rpc = "idle"
    /\ LET j == Head(threads[t].runnable)
           rest == Tail(threads[t].runnable)
       IN IF JobFuncEnds(run.outcome) = "raised"
          THEN /\ threads' = [threads EXCEPT ![t].pc = "crashed"]
               /\ UNCHANGED jobs
          ELSE /\ jobs' = [jobs EXCEPT ![j].next_run = now + jobs[j].interval * SecondsPerHour]
               /\ threads' = [threads EXCEPT
                                 ![t].runnable = rest,
                                 ![t].last = [outcome |-> run.outcome, job |-> j, at |-> now],
                                 ![t].pc = IF rest = << >> THEN "sleep" ELSE "call"]
    /\ UNCHANGED <<is_running, thread>>
    /\ UNCHANGED cleanVars
    /\ UNCHANGED besideScheduler

\* time.sleep(60) is over
ThreadWake(t) ==
    /\ threads[t].pc = "sleep"
    /\ threads' = [threads EXCEPT ![t].pc = "check"]
    /\ UNCHANGED <<is_running, thread, jobs>>
    /\ UNCHANGED cleanVars
    /\ UNCHANGED besideScheduler

\* a process starts with the scheduler off, beside a data directory that holds
\* one old file
InitScheduler ==
    /\ InitChannel
    /\ InitRemote /\ InitStreamer /\ InitWalkers
    /\ InitSchedulerOff
    /\ now = InitialNow
    /\ fs = [data |-> [exists |-> TRUE, files |-> {e \in DataUniverse : e.name = "d5"}],
             logs |-> AbsentDir]
    /\ denied = {}
    /\ configFile \in {<< >>, [auto_cleanup_enabled |-> FALSE]}
    /\ rpc = "idle"
    /\ trace = << >>
    /\ run = NoRun
    /\ ticks = 0

NextScheduler ==
    \/ StartScheduler
    \/ StopScheduler
    \/ \E c \in ConfigCommands : AutocleanConfig(c)
    \/ \E t \in DOMAIN threads : ThreadCheck(t)
    \/ \E t \in DOMAIN threads : ThreadRunPending(t)
    \/ \E t \in DOMAIN threads : ThreadCallJob(t)
    \/ \E t \in DOMAIN threads : JobReturns(t)
    \/ \E t \in DOMAIN threads : ThreadWake(t)
    \/ RunAge
    \/ RunCount
    \/ RunSize
    \/ RunReport
    \/ Tick

SpecScheduler == InitScheduler /\ [][NextScheduler]_vars

\* the settings files the scheduled runs start from: none, or limits that make
\* the count pass or the size pass delete
SchedulerConfigFiles ==
    {<< >>,
     [max_file_age_hours |-> 60, max_files_count |-> 2, max_total_size_mb |-> 3],
     [max_file_age_hours |-> 60, max_files_count |-> 100, max_total_size_mb |-> 0]}

\* main() has started the scheduler: one thread, one job, beside what earlier
\* invocations left in the directories
InitScheduledRuns ==
    /\ InitChannel
    /\ InitRemote /\ InitStreamer /\ InitWalkers
    /\ now = InitialNow
    /\ fs = [data |-> [exists |-> TRUE,
                       files |-> {e \in DataUniverse : e.name \in {"d1", "d3", "d4", "d5"}}],
             logs |-> [exists |-> TRUE,
                       files |-> {e \in LogsUniverse : e.name \in {LogName, "l1"}}]]
    /\ denied \in {{}, {"d4"}}
    /\ configFile \in SchedulerConfigFiles
    /\ rpc = "idle"
    /\ trace = << >>
    /\ run = NoRun
    /\ ticks = 0
    /\ is_running = TRUE
    /\ thread = 1
    /\ threads = <<NewThread>>
    /\ jobs = <<NewJob(LoadConfig(configFile).cleanup_interval_hours, InitialNow)>>

\* the scheduler thread polls and runs its job while the clock advances; the
\* scheduler may be stopped
NextScheduledRuns ==
    \/ StopScheduler
    \/ \E t \in DOMAIN threads : ThreadCheck(t)
    \/ \E t \in DOMAIN threads : ThreadRunPending(t)
    \/ \E t \in DOMAIN threads : ThreadCallJob(t)
    \/ \E t \in DOMAIN threads : JobReturns(t)
    \/ \E t \in DOMAIN threads : ThreadWake(t)
    \/ RunAge
    \/ RunCount
    \/ RunSize
    \/ RunReport
    \/ Tick

SpecScheduledRuns == InitScheduledRuns /\ [][NextScheduledRuns]_vars

\* a step of the scheduler thread: of its loop or of the run it is making
ThreadStep ==
    \/ \E t \in DOMAIN threads :
           ThreadCheck(t) \/ ThreadRunPending(t) \/ ThreadCallJob(t) \/ JobReturns(t)
               \/ ThreadWake(t)
    \/ RunAge
    \/ RunCount
    \/ RunSize
    \/ RunReport

\* the scheduler thread is a running thread: it is not held forever before its
\* next statement, and time.sleep(60) ends
FairScheduledRuns == SpecScheduledRuns /\ WF_vars(ThreadStep)

\* autoclean config --disabled
DisableCommand == CHOOSE c \in ConfigCommands : ~c.auto_cleanup_enabled

\* a process starts beside old files in both directories, cleanup enabled (no
\* settings file) or disabled
InitDisabling ==
    /\ InitChannel
    /\ InitRemote /\ InitStreamer /\ InitWalkers
    /\ InitSchedulerOff
    /\ now = InitialNow
    /\ fs = [data |-> [exists |-> TRUE,
                       files |-> {e \in DataUniverse : e.name \in {"d4", "d5"}}],
             logs |-> [exists |-> TRUE, files |-> {e \in LogsUniverse : e.name = "l1"}]]
    /\ denied = {}
    /\ configFile \in {<< >>, [auto_cleanup_enabled |-> FALSE]}
    /\ rpc = "idle"
    /\ trace = << >>
    /\ run = NoRun
    /\ ticks = 0

\* the scheduler is started, runs are made by the scheduler thread and in the
\* foreground, and cleanup may be disabled for good
NextDisabling ==
    \/ StartScheduler
    \/ AutocleanConfig(DisableCommand)
    \/ RunStart
    \/ ThreadStep
    \/ Tick

SpecDisabling == InitDisabling /\ [][NextDisabling]_vars

(***************************************************************************)
(* Part 4.  The remote command interpreter: execute_selenium_command.      *)
(***************************************************************************)

IsWord(w) == w # " "

\* command.split(): the words of the command, the whitespace dropped
Split(c) == SelectSeq(c, IsWord)

\* str.lower() on the words the model uses
Lower(w) ==
    CASE w = "GET" -> "get"
      [] w = "U1" -> "u1"
      [] w = "Quit()" -> "quit()"
      [] OTHER -> w

\* cmd = parts[0].lower()
Verb(parts) == Lower(parts[1])

\* mutant: the arguments are lowercased along with the verb
ArgsLowered(parts) == [i \in 1..(Len(parts) - 1) |-> Lower(parts[i + 1])]

\* args = parts[1:]
Args(parts) == Tail(parts)

\* the verbs execute_selenium_command has a branch for
BuiltIn ==
    {"get", "current_url", "title", "page_source", "execute_script", "find_element",
     "click", "send_keys", "get_log", "save_screenshot", "window_size", "back",
     "forward", "refresh", "close", "scroll_to_bottom", "scroll_info",
     "wait_for_load", "smart_scroll"}

\* the command strings the interpreter is called with
RemoteCommands ==
    {<< >>, <<" ">>, <<" ", " ">>,
     <<"get", " ", "u1">>, <<"GET", " ", "U1">>, <<" ", "get", " ", " ", "u1", " ">>,
     <<"get">>, <<"get", " ", "u1", " ", "u2">>,
     <<"title">>, <<"current_url">>, <<"page_source">>,
     <<"execute_script", " ", "return", " ", "1">>,
     <<"find_element", " ", "By.ID,x">>, <<"find_element", " ", "By.FOO,x">>,
     <<"find_element">>,
     <<"click", " ", "#b">>, <<"click">>,
     <<"send_keys", " ", "#i", " ", "hi">>, <<"send_keys", " ", "#i">>,
     <<"get_log">>, <<"save_screenshot", " ", "s.png">>, <<"window_size">>,
     <<"back">>, <<"forward">>, <<"refresh">>, <<"close">>,
     <<"scroll_to_bottom">>, <<"scroll_info">>,
     <<"wait_for_load", " ", "5">>, <<"wait_for_load", " ", "0">>,
     <<"wait_for_load", " ", "-1">>, <<"wait_for_load", " ", "abc">>,
     <<"smart_scroll">>, <<"smart_scroll", " ", "abc">>,
     <<"frobnicate">>, <<"frobnicate", " ", "x">>,
     <<"quit()">>, <<"Quit()">>, <<" ", "name">>}

\* a step of the call: the try block it sits in, what is called with which
\* arguments, and whether it is a call on the driver (or on an element of it)
Step(site, call, arg, driver) == [site |-> site, call |-> call, arg |-> arg, driver |-> driver]

\* mutant: the fallback evaluates the lowercased verb
FallbackTextVerb(c) == <<Verb(Split(c))>>

\* the text the fallback puts after "driver.": the command as it was given
FallbackText(c) == c

\* eval(f"driver.{text}") gets as far as calling the driver: the text is one
\* attribute or method the driver has
EvalOk(text) == Len(Split(text)) = 1 /\ Split(text)[1] \in {"quit()", "name"}

\* int(w) for the numerals the model uses
IntOf(w) ==
    CASE w = "0" -> 0
      [] w = "5" -> 5
      [] w = "-1" -> 0 - 1
      [] OTHER -> 0

\* int(args[0]) raises ValueError
BadInt(args) == args # << >> /\ args[1] \notin {"0", "5", "-1"}

\* wait_for_load: timeout = int(args[0]) if args else 10
Timeout(args) == IF args # << >> THEN IntOf(args[1]) ELSE 10

\* time.time() - start_time in half seconds after the polls in d: each poll is
\* the readyState call and time.sleep(0.5)
RECURSIVE Elapsed(_)
Elapsed(d) == IF d = << >> THEN 0 ELSE Head(d).took + 1 + Elapsed(Tail(d))

\* mutant: the loop goes on while the elapsed time is at most the timeout
KeepsPollingInclusive(args, d) == Elapsed(d) <= 2 * Timeout(args)

\* while time.time() - start_time < timeout
KeepsPolling(args, d) == Elapsed(d) < 2 * Timeout(args)

\* find_element: the argument names a strategy of by_map before its comma
FindSyntaxOk(args) == args # << >> /\ args[1] \in {"By.ID,x"}

\* url = args[0] if args else ""
Url(args) == IF args # << >> THEN args[1] ELSE ""

\* the steps the branch of a verb makes when nothing raises
Steps(verb, args, ac, c) ==
    CASE verb = "get" ->
            <<Step("main", "get", <<Url(args)>>, TRUE)>> \o
            (IF ac
             THEN <<Step("capture", "execute_script", <<"interface_state">>, TRUE),
                    Step("capture", "mkdir", <<"data">>, FALSE),
                    Step("capture", "save_screenshot", <<"current-interface.png">>, TRUE),
                    Step("convert", "convert", <<"current-interface.jpg">>, FALSE)>>
             ELSE << >>)
      [] verb = "page_source" ->
            <<Step("main", "page_source", << >>, TRUE), Step("main", "page_source", << >>, TRUE)>>
      [] verb = "find_element" ->
            IF FindSyntaxOk(args)
            THEN <<Step("main", "find_element", args, TRUE),
                   Step("main", "element.tag_name", << >>, TRUE)>>
            ELSE << >>
      [] verb = "click" ->
            IF args # << >>
            THEN <<Step("main", "find_element", <<args[1]>>, TRUE),
                   Step("main", "element.click", << >>, TRUE)>>
            ELSE << >>
      [] verb = "send_keys" ->
            IF Len(args) >= 2
            THEN <<Step("main", "find_element", <<args[1]>>, TRUE),
                   Step("main", "element.send_keys", Tail(args), TRUE)>>
            ELSE << >>
      [] verb = "get_log" ->
            <<Step("main", "get_log", <<IF args # << >> THEN args[1] ELSE "browser">>, TRUE)>>
      \* Path is a local name of the function (the import in the get branch), so
      \* Path("data") raises UnboundLocalError before the driver is called
      [] verb = "save_screenshot" -> << >>
      [] verb = "window_size" -> <<Step("main", "get_window_size", << >>, TRUE)>>
      [] verb \in {"current_url", "title", "back", "forward", "refresh", "close"} ->
            <<Step("main", verb, << >>, TRUE)>>
      [] verb = "execute_script" -> <<Step("main", "execute_script", args, TRUE)>>
      [] verb \in {"scroll_to_bottom", "scroll_info"} ->
            <<Step("main", "execute_script", <<verb>>, TRUE)>>
      [] verb = "smart_scroll" ->
            IF BadInt(args) THEN << >>
            ELSE <<Step("main", "execute_script", <<verb>>, TRUE)>>
      [] verb = "wait_for_load" ->
            IF BadInt(args) \/ ~KeepsPolling(args, << >>) THEN << >>
            ELSE <<Step("main", "execute_script", <<"readyState">>, TRUE)>>
      [] OTHER ->
            <<Step("fallback", "eval", FallbackText(c), EvalOk(FallbackText(c)))>>

\* mutant: the function has no outer try block
HandlerNoOuterTry(step, verb, args) ==
    CASE step.site = "fallback" -> Value("str", <<"Unknown command: ", verb>>)
      [] step.site \in {"capture", "convert"} ->
            Value("str", <<"Navigated to: ", Url(args), " (auto-capture failed: ", "e", ")">>)
      [] OTHER -> Value("raised", <<"e">>)

\* mutant: the auto-capture steps have no try block of their own
HandlerNoCaptureTry(step, verb, args) ==
    CASE step.site = "fallback" -> Value("str", <<"Unknown command: ", verb>>)
      [] OTHER -> Value("str", <<"Error: ", "e">>)

\* what the call returns when a step raises: the except clause around the step
Handler(step, verb, args) ==
    CASE step.site = "fallback" -> Value("str", <<"Unknown command: ", verb>>)
      [] step.site \in {"capture", "convert"} ->
            Value("str", <<"Navigated to: ", Url(args), " (auto-capture failed: ", "e", ")">>)
      [] OTHER -> Value("str", <<"Error: ", "e">>)

\* what a branch returns without making a step
Immediate(verb, args) ==
    CASE verb = "find_element" -> Value("str", <<"Invalid find_element syntax">>)
      [] verb = "click" -> Value("str", <<"No selector provided">>)
      [] verb = "send_keys" -> Value("str", <<"Invalid send_keys syntax">>)
      [] verb \in {"smart_scroll", "wait_for_load"} /\ BadInt(args) ->
            Value("str", <<"Error: ", "e">>)
      [] verb = "save_screenshot" -> Value("str", <<"Error: ", "e">>)
      [] OTHER -> Value("str", <<"Page load timeout after ",
                                 IF args # << >> THEN args[1] ELSE "10", " seconds">>)

\* what a branch returns after its last step returned; v is "alt" when the
\* converter is not installed, the readyState is not complete at the last
\* poll (the timeout has passed), or the page source is longer than 1000
\* characters
Final(verb, args, step, v) ==
    CASE verb = "get" /\ step.call = "get" -> Value("str", <<"Navigated to: ", Url(args)>>)
      [] verb = "get" /\ step.call # "get" ->
            Value("composite", <<"Navigated to: ", Url(args),
                                 IF v = "alt" THEN "current-interface.png"
                                 ELSE "current-interface.jpg">>)
      [] verb = "find_element" -> Value("str", <<"Found element: ", "tag">>)
      [] verb = "click" -> Value("str", <<"Clicked element: ", args[1]>>)
      [] verb = "send_keys" -> Value("str", <<"Typed ", "into ", args[1]>>)
      [] verb = "back" -> Value("str", <<"Navigated back">>)
      [] verb = "forward" -> Value("str", <<"Navigated forward">>)
      [] verb = "refresh" -> Value("str", <<"Page refreshed">>)
      [] verb = "close" -> Value("str", <<"Window closed">>)
      [] verb = "wait_for_load" ->
            IF v = "alt"
            THEN Value("str", <<"Page load timeout after ",
                                IF args # << >> THEN args[1] ELSE "10", " seconds">>)
            ELSE Value("str", <<"Page loaded in ", "seconds">>)
      [] verb = "page_source" /\ v = "alt" -> Value("value", <<"page_source", "...">>)
      [] OTHER -> Value("value", <<step.call>>)

\* execute_selenium_command(driver, c, timeout, ac) is called: the command is
\* split and the branch of its verb is entered
Execute(c, ac) ==
    /\ rc \in {"idle", "returned"}
    /\ command' = c
    /\ auto_capture' = ac
    /\ done' = << >>
    /\ IF Split(c) = << >>
       THEN /\ todo' = << >>
            /\ result' = Value("None", << >>)
            /\ rc' = "returned"
       ELSE LET verb == Verb(Split(c))
                args == Args(Split(c))
                steps == Steps(verb, args, ac, c)
            IN /\ todo' = steps
               /\ result' = IF steps = << >> THEN Immediate(verb, args)
                            ELSE Value("unset", << >>)
               /\ rc' = IF steps = << >> THEN "returned" ELSE "running"
    /\ UNCHANGED <<chanVars, cleanVars, schedVars, streamVars, walkVars>>

\* the current step returns v after took half seconds: the next step, another
\* poll, or the return value
StepReturns(v, took) ==
    /\ rc = "running"
    /\ LET step == Head(todo)
           verb == Verb(Split(command))
           args == Args(Split(command))
           made == Append(done, [step |-> step, raised |-> FALSE, value |-> v, took |-> took])
           again == /\ verb = "wait_for_load"
                    /\ v = "alt"
                    /\ KeepsPolling(args, made)
           rest == IF again THEN todo
                   ELSE IF step.site = "convert" /\ v = "alt" THEN << >>
                   ELSE Tail(todo)
       IN /\ step.site = "fallback" => step.driver
          /\ v = "alt" => \/ step.site = "convert"
                          \/ verb = "wait_for_load"
                          \/ verb = "page_source" /\ Len(todo) = 1
          /\ took # 0 => verb = "wait_for_load"
          /\ done' = made
          /\ todo' = rest
          /\ result' = IF rest = << >> THEN Final(verb, args, step, v) ELSE result
          /\ rc' = IF rest = << >> THEN "returned" ELSE "running"
    /\ UNCHANGED <<command, auto_capture>>
    /\ UNCHANGED <<chanVars, cleanVars, schedVars, streamVars, walkVars>>

\* the current step raises: the except clause around it makes the return value
StepRaises ==
    /\ rc = "running"
    /\ done' = Append(done, [step |-> Head(todo), raised |-> TRUE, value |-> "none", took |-> 0])
    /\ todo' = << >>
    /\ result' = Handler(Head(todo), Verb(Split(command)), Args(Split(command)))
    /\ rc' = "returned"
    /\ UNCHANGED <<command, auto_capture>>
    /\ UNCHANGED <<chanVars, cleanVars, schedVars, streamVars, walkVars>>

InitInterpreter == InitChannel /\ InitRemote /\ InitStreamer /\ InitWalkers /\ InitCleanerFixed

NextRemote ==
    \/ \E c \in RemoteCommands, ac \in BOOLEAN : Execute(c, ac)
    \/ \E v \in {"ok", "alt"}, took \in 0..MaxCallTime : StepReturns(v, took)
    \/ StepRaises

SpecRemote == InitInterpreter /\ [][NextRemote]_vars

(***************************************************************************)
(* Part 5.  The ScreenStreamer: start_streaming, stop_streaming and the    *)
(* stream_worker threads.                                                  *)
(***************************************************************************)

\* a thread made by threading.Thread(target=stream_worker): frame_count = 0 and
\* it is about to evaluate `while self.is_streaming`
NewWorker == [pc |-> "check", frame_count |-> 0]

\* start_streaming(interval, sf): nothing when already streaming; otherwise the
\* flag is set and a stream_worker thread is created and started
StartStreaming(sf) ==
    /\ Len(workers) < MaxWorkers
    /\ IF is_streaming
       THEN UNCHANGED streamVars
       ELSE /\ save_frames' = sf
            /\ is_streaming' = TRUE
            /\ workers' = Append(workers, NewWorker)
            /\ stream_thread' = Len(workers) + 1
            /\ UNCHANGED latest_screenshot
    /\ UNCHANGED <<chanVars, cleanVars, schedVars, remoteVars, walkVars>>

\* stop_streaming: nothing when not streaming; otherwise the flag is cleared
\* and join(timeout=2) waits: a thread that is at the test of the flag ends
\* within the two seconds, a thread inside the loop body (a capture under way,
\* or asleep) may not, and join comes back all the same
StopStreaming ==
    /\ is_streaming' = FALSE
    /\ workers' = [w \in DOMAIN workers |->
                      IF is_streaming /\ workers[w].pc = "check"
                      THEN [workers[w] EXCEPT !.pc = "exited"]
                      ELSE workers[w]]
    /\ UNCHANGED <<stream_thread, save_frames, latest_screenshot>>
    /\ UNCHANGED <<chanVars, cleanVars, schedVars, remoteVars, walkVars>>

\* while self.is_streaming: the loop goes on, or the thread ends
WorkerCheck(w) ==
    /\ workers[w].pc = "check"
    /\ workers' = [workers EXCEPT ![w].pc = IF is_streaming THEN "body" ELSE "exited"]
    /\ UNCHANGED <<is_streaming, stream_thread, save_frames, latest_screenshot>>
    /\ UNCHANGED <<chanVars, cleanVars, schedVars, remoteVars, walkVars>>

\* one pass through the loop body, to the end of its sleep: no screenshot came
\* back ("none"), the screenshot was kept and the files written ("shot"), or
\* writing a file raised after the screenshot was kept ("raised")
WorkerBody(w, got) ==
    /\ workers[w].pc = "body"
    /\ (got = "shot" /\ save_frames) => workers[w].frame_count < MaxFrames
    /\ latest_screenshot' = IF got = "none" THEN latest_screenshot ELSE "shot"
    /\ workers' = [workers EXCEPT
                      ![w].pc = "check",
                      ![w].frame_count = IF got = "shot" /\ save_frames THEN @ + 1 ELSE @]
    /\ UNCHANGED <<is_streaming, stream_thread, save_frames>>
    /\ UNCHANGED <<chanVars, cleanVars, schedVars, remoteVars, walkVars>>

NextStreamer ==
    \/ \E sf \in BOOLEAN : StartStreaming(sf)
    \/ StopStreaming
    \/ \E w \in DOMAIN workers : WorkerCheck(w)
    \/ \E w \in DOMAIN workers, got \in {"none", "shot", "raised"} : WorkerBody(w, got)

\* the module is imported: every object is as its constructor left it
SpecStreamer == InitInterpreter /\ [][NextStreamer]_vars

(***************************************************************************)
(* Part 6.  The scheduler thread's run beside a cleanup command: the loops *)
(* of cleanup_old_files and of cleanup, one directory entry at a time.     *)
(***************************************************************************)

\* a loop over the directories ds is about to start: the files it selects are
\* all of them (every) or those older than cutoff
Walking(ds, every, cutoff) ==
    [pc |-> "walk", dirs |-> ds, dir |-> "", listed |-> {}, cur |-> "",
     every |-> every, cutoff |-> cutoff, before |-> fs,
     removed |-> [data |-> {}, logs |-> {}], outcome |-> "none"]

\* auto_cleanup in the scheduler thread: cleanup_old_files is entered
AgeWalkStart ==
    /\ rpc = "age"
    /\ walkers["scheduler"].pc = "idle"
    /\ walkers' = [walkers EXCEPT !["scheduler"] =
                      Walking(<<"data", "logs">>, FALSE,
                              CutoffTime(now, run.config.max_file_age_hours))]
    /\ UNCHANGED cleanVars
    /\ UNCHANGED <<chanVars, schedVars, remoteVars, streamVars>>

\* the cleanup command without --auto, once: nothing to do when neither
\* directory exists; else the data directory, and the logs directory with --all
CleanupCommand(all, older_than) ==
    /\ walkers["command"].pc = "idle"
    /\ walkers["command"].outcome = "none"
    /\ walkers' = [walkers EXCEPT !["command"] =
                      IF ~fs.data.exists /\ ~fs.logs.exists
                      THEN [@ EXCEPT !.outcome = "nodirs"]
                      ELSE Walking(IF all THEN <<"data", "logs">> ELSE <<"data">>,
                                   older_than = 0, CutoffTime(now, older_than))]
    /\ UNCHANGED cleanVars
    /\ UNCHANGED <<chanVars, schedVars, remoteVars, streamVars>>

\* the loop over a directory is through: the next directory is tested for
\* existence and listed by iterdir(), or the loops are over; cleanup then
\* prints what it cleaned, auto_cleanup goes on with cleanup_by_count
WalkNext(w) ==
    /\ walkers[w].pc = "walk"
    /\ walkers[w].listed = {}
    /\ IF walkers[w].dirs # << >>
       THEN /\ walkers' = [walkers EXCEPT
                             ![w].dir = Head(walkers[w].dirs),
                             ![w].dirs = Tail(walkers[w].dirs),
                             ![w].listed = IF fs[Head(walkers[w].dirs)].exists
                                           THEN {e.name : e \in fs[Head(walkers[w].dirs)].files}
                                           ELSE {}]
            /\ UNCHANGED <<rpc, trace>>
       ELSE /\ walkers' = [walkers EXCEPT ![w].pc = "idle", ![w].dir = "",
                                          ![w].outcome = "finished"]
            /\ IF w = "scheduler"
               THEN /\ rpc' = "count"
                    /\ trace' = Append(trace,
                          [PassRecord("age", run.config.max_file_age_hours,
                                      [fs |-> fs, raised |-> FALSE,
                                       removed |-> walkers[w].removed], FALSE)
                             EXCEPT !.before = walkers[w].before])
               ELSE UNCHANGED <<rpc, trace>>
    /\ UNCHANGED <<now, fs, denied, configFile, run, ticks>>
    /\ UNCHANGED <<chanVars, schedVars, remoteVars, streamVars>>

\* the next entry n of the listing: file_path.is_file() is False for an entry
\* that is gone or is no file; stat().st_mtime of a file decides whether it is
\* to be deleted
WalkVisit(w, n) ==
    /\ walkers[w].pc = "walk"
    /\ n \in walkers[w].listed
    /\ LET here == {e \in fs[walkers[w].dir].files : e.name = n}
           selected == /\ here # {}
                       /\ \A e \in here :
                              IsFile(e) /\ (walkers[w].every \/ IsOld(e, walkers[w].cutoff))
       IN walkers' = [walkers EXCEPT ![w].listed = @ \ {n},
                                     ![w].cur = IF selected THEN n ELSE "",
                                     ![w].pc = IF selected THEN "unlink" ELSE "walk"]
    /\ UNCHANGED cleanVars
    /\ UNCHANGED <<chanVars, schedVars, remoteVars, streamVars>>

\* file_size = file_path.stat().st_size; file_path.unlink(): the file is
\* deleted, or the call raises (FileNotFoundError when the file is gone) and
\* the except clause of cleanup or of auto_cleanup ends the command or the run
WalkUnlink(w) ==
    /\ walkers[w].pc = "unlink"
    /\ LET d == walkers[w].dir
           here == {e \in fs[d].files : e.name = walkers[w].cur}
       IN IF here = {} \/ walkers[w].cur \in denied
          THEN /\ walkers' = [walkers EXCEPT ![w].pc = "idle", ![w].dir = "",
                                             ![w].cur = "", ![w].outcome = "raised"]
               /\ UNCHANGED fs
               /\ IF w = "scheduler"
                  THEN /\ rpc' = "idle"
                       /\ run' = [run EXCEPT !.outcome = "error"]
                       /\ trace' = Append(trace,
                             [PassRecord("age", run.config.max_file_age_hours,
                                         [fs |-> fs, raised |-> TRUE,
                                          removed |-> walkers[w].removed], FALSE)
                                EXCEPT !.before = walkers[w].before])
                  ELSE UNCHANGED <<rpc, run, trace>>
          ELSE /\ fs' = [fs EXCEPT ![d].files = @ \ here]
               /\ walkers' = [walkers EXCEPT ![w].pc = "walk", ![w].cur = "",
                                             ![w].removed[d] = @ \cup here]
               /\ UNCHANGED <<rpc, run, trace>>
    /\ UNCHANGED <<now, denied, configFile, ticks>>
    /\ UNCHANGED <<chanVars, schedVars, remoteVars, streamVars>>

\* main() started the scheduler a full interval ago: its job is due, beside old
\* files in both directories
InitConcurrent ==
    /\ InitChannel
    /\ InitRemote /\ InitStreamer /\ InitWalkers
    /\ now = InitialNow
    /\ fs = [data |-> [exists |-> TRUE,
                       files |-> {e \in DataUniverse : e.name \in {"d4", "d5"}}],
             logs |-> [exists |-> TRUE, files |-> {e \in LogsUniverse : e.name = "l1"}]]
    /\ denied = {}
    /\ configFile = << >>
    /\ rpc = "idle"
    /\ trace = << >>
    /\ run = NoRun
    /\ ticks = 0
    /\ is_running = TRUE
    /\ thread = 1
    /\ threads = <<NewThread>>
    /\ jobs = <<NewJob(DefaultConfig.cleanup_interval_hours,
                       InitialNow - DefaultConfig.cleanup_interval_hours * SecondsPerHour)>>

\* the scheduler thread makes its run while a cleanup command is given
NextConcurrent ==
    \/ \E t \in DOMAIN threads : ThreadCheck(t)
    \/ \E t \in DOMAIN threads : ThreadRunPending(t)
    \/ \E t \in DOMAIN threads : ThreadCallJob(t)
    \/ \E t \in DOMAIN threads : JobReturns(t)
    \/ \E t \in DOMAIN threads : ThreadWake(t)
    \/ AgeWalkStart
    \/ \E all \in BOOLEAN, older_than \in {0, 60} : CleanupCommand(all, older_than)
    \/ \E w \in DOMAIN walkers : WalkNext(w)
    \/ \E w \in DOMAIN walkers, n \in {"d4", "d5", "l1"} : WalkVisit(w, n)
    \/ \E w \in DOMAIN walkers : WalkUnlink(w)
    \/ RunCount
    \/ RunSize
    \/ RunReport

SpecConcurrent == InitConcurrent /\ [][NextConcurrent]_vars

Init == InitChannel /\ InitRemote /\ InitStreamer /\ InitWalkers /\ InitFiles /\ configFile \in ConfigFiles

Next ==
    \/ NextChannel \/ NextPasses \/ NextCleanup \/ NextScheduler \/ NextRemote
    \/ NextStreamer \/ NextConcurrent

Spec == Init /\ [][Next]_vars

\* a capture command starts on a fresh extractor; the cleaner stays idle
InitCapture == InitChannel /\ InitRemote /\ InitStreamer /\ InitWalkers /\ InitCleanerFixed

SpecChannel == InitCapture /\ [][NextChannel]_vars


(***************************************************************************)
(* Claims about the channel, checked under SpecChannel.                    *)
(***************************************************************************)

\* C1: every send_command call that returns hands back a payload carrying the
\* id the call sent, whatever messages the browser delivers on the stream.
C1_RoundTripIdentity ==
    \A i \in DOMAIN calls : calls[i].got = calls[i].sent

\* C2: while no connection was ever established, every send_command call fails
\* with the "not connected" error, nothing is written to any stream and the
\* id counter keeps its initial value.
C2_NotConnectedSendsNothing ==
    websocket = None =>
        /\ message_id = 0
        /\ assigned = << >>
        /\ written = << >>
        /\ wire = << >>
        /\ \A i \in DOMAIN directResults : directResults[i] = "Not connected to Chrome"

\* connect returned False and send_command was then called twice
C2_Witness ==
    /\ websocket = None
    /\ pc = "aborted"
    /\ Len(directResults) = 2

\* C3: the ids send_command assigns on one channel are 1, 2, 3, ... in call
\* order, also across calls whose write or read fails.
C3_IdsStrictlyIncreasing ==
    \A i \in DOMAIN assigned : assigned[i] = i

\* two calls whose write failed were assigned ids after a call that was written
C3_Witness ==
    /\ Len(written) >= 1
    /\ Len(assigned) >= Len(written) + 2

\* C4: a request is written only after every earlier request was followed by
\* the read of one inbound message, so at most one request is unanswered, and
\* every call that returns has consumed exactly one inbound message.
C4_OneRequestInFlight ==
    /\ nRead <= Len(written)
    /\ Len(written) - nRead <= 1
    /\ nRead = Len(calls)
    /\ (pc = "send" /\ connState = "open") => nRead = Len(written)

\* a request is in flight after two round trips, with a backlog on the stream
C4_Witness ==
    /\ pc = "recv"
    /\ nRead >= 2
    /\ Len(written) = nRead + 1
    /\ Len(inbound) >= 2


(***************************************************************************)
(* Claims about the cleanup passes, checked under SpecPasses, and about    *)
(* auto_cleanup, checked under SpecCleanup.                                *)
(***************************************************************************)

DirKeys == {"data", "logs"}

\* the regular files of a directory
Files(dir) == {e \in dir.files : IsFile(e)}

\* the last pass made
Last == trace[Len(trace)]

Returned(pass) == trace # << >> /\ Last.pass = pass /\ ~Last.raised

AgeHours(r, e) == (r.now - e.mtime) \div SecondsPerHour

\* C5: once a cleanup run has completed, each watched directory holds at most
\* max_files_count files, at most max_total_size_mb megabytes, and no file
\* older than the clock minus max_file_age_hours.
C5_BoundsAfterRun ==
    (rpc = "idle" /\ run.outcome = "completed") =>
        \A d \in DirKeys :
            /\ Cardinality(Files(fs[d])) <= run.config.max_files_count
            /\ SumSize(Files(fs[d])) <= run.config.max_total_size_mb * BytesPerMB
            /\ \A e \in Files(fs[d]) :
                   ~(e.mtime < run.now - run.config.max_file_age_hours * SecondsPerHour)

\* C6: a count pass that returns leaves a directory of at most max_files
\* files alone, and otherwise deletes the n - max_files oldest files and keeps
\* the max_files newest, for every max_files >= 0.
C6_CountPassKeepsNewest ==
    Returned("count") =>
        \A d \in DirKeys :
            LET B == Files(Last.before[d])
                A == Files(Last.after[d])
            IN /\ A \subseteq B
               /\ Last.after[d].files \ A = Last.before[d].files \ B
               /\ IF Cardinality(B) <= Last.arg
                  THEN A = B
                  ELSE /\ Cardinality(A) = Last.arg
                       /\ Cardinality(B \ A) = Cardinality(B) - Last.arg
                       /\ \A r \in B \ A, a \in A : r.mtime <= a.mtime

\* an age pass that returns removes from each directory the regular files
\* whose mtime is below the clock minus max_age_hours, and nothing else
AgePassExact ==
    \A d \in DirKeys :
        Last.after[d].files =
            {e \in Last.before[d].files :
                ~(IsFile(e) /\ e.mtime < Last.now - Last.arg * SecondsPerHour)}

\* the data directory held five files aged 1, 10, 30, 50 and 70 hours and the
\* pass ran with max_age_hours = 48
AgeScenario ==
    /\ Last.arg = 48
    /\ Cardinality(Files(Last.before.data)) = 5
    /\ {AgeHours(Last, e) : e \in Files(Last.before.data)} = {1, 10, 30, 50, 70}

\* C7 as stated: the age pass deletes exactly the files older than the limit;
\* in the scenario only the 70 hour file goes and four files stay.
C7_AgePassLosesOnly70h ==
    Returned("age") =>
        /\ AgePassExact
        /\ AgeScenario =>
              /\ {AgeHours(Last, e) : e \in Last.removed.data} = {70}
              /\ Cardinality(Files(Last.after.data)) = 4

\* C7 amended: the age pass deletes exactly the files older than the limit;
\* in the scenario the 50 hour and the 70 hour files go and three files stay.
C7_AgePassDeletesOlderThanLimit ==
    Returned("age") =>
        /\ AgePassExact
        /\ AgeScenario =>
              /\ {AgeHours(Last, e) : e \in Last.removed.data} = {50, 70}
              /\ Cardinality(Files(Last.after.data)) = 3

\* the scenario's age pass has returned, next to a log file exactly at the limit
C7_Witness ==
    /\ Returned("age")
    /\ AgeScenario
    /\ \E e \in Last.after.logs.files : IsFile(e) /\ AgeHours(Last, e) = 48

\* C8: a size pass that returns leaves a directory at or below the cap alone;
\* otherwise it deletes the shortest oldest-first run of files that brings the
\* directory to or below the cap.
C8_SizePassShortestPrefix ==
    Returned("size") =>
        \A d \in DirKeys :
            LET B == Files(Last.before[d])
                A == Files(Last.after[d])
                R == B \ A
                cap == Last.arg * BytesPerMB
            IN /\ A \subseteq B
               /\ Last.after[d].files \ A = Last.before[d].files \ B
               /\ IF SumSize(B) <= cap
                  THEN R = {}
                  ELSE /\ SumSize(A) <= cap
                       /\ \A r \in R, a \in A : r.mtime <= a.mtime
                       /\ \E r \in R : /\ \A x \in R : x.mtime <= r.mtime
                                       /\ SumSize(A) + r.size > cap

\* a size pass deleted two files of the data directory and stopped with the
\* directory exactly at the cap
C8_Witness ==
    /\ Returned("size")
    /\ Cardinality(Last.removed.data) >= 2
    /\ Files(Last.after.data) # {}
    /\ SumSize(Files(Last.after.data)) = Last.arg * BytesPerMB

\* C9: an age pass run right after an age pass with the same limit, with no
\* file added in between, deletes nothing.
C9_AgePassIdempotent ==
    (trace # << >> /\ Last.pass = "age" /\ Last.again) =>
        /\ ~Last.raised
        /\ Last.removed.data = {} /\ Last.removed.logs = {}
        /\ Last.after = Last.before

\* the second of two successive age passes, the first having deleted files
C9_Witness ==
    /\ trace # << >>
    /\ Last.pass = "age"
    /\ Last.again
    /\ Last.prior >= 2

\* C10: every run that gets past the configuration check makes the age, count
\* and size passes, in this order, each on the directories as the pass before
\* left them, whatever an earlier pass did or met.
C10_AllPassesRun ==
    (rpc = "idle" /\ run.outcome \in {"completed", "error"}) =>
        /\ [i \in DOMAIN trace |-> trace[i].pass] = <<"age", "count", "size">>
        /\ \A i \in 2..Len(trace) : trace[i].before = trace[i - 1].after

\* the size of logs/auto_cleanup.log in a logs directory, 0 when it is not there
LogSize(dir) == SumSize({e \in dir.files : e.name = LogName})

\* the line a run writes for what its passes returned
RunLine(tr) == LogLineLen(Cardinality(AllCleanedFiles(tr)), TotalSize(tr))

\* C11: every run that completes, whether or not its passes deleted anything,
\* has appended one line to logs/auto_cleanup.log: the file is longer, by the
\* line giving the timestamp, the file count and the byte total, than the passes
\* left it, and carries the run's clock reading.
C11_EveryRunLogsOneLine ==
    (rpc = "idle" /\ run.outcome = "completed") =>
        /\ fs.logs.exists
        /\ LogSize(fs.logs) = LogSize(Last.after.logs) + RunLine(trace)
        /\ \E e \in fs.logs.files : e.name = LogName /\ e.mtime = run.now

\* C13: the configuration load_config hands to a run has exactly the five
\* fields; a field the settings file holds has the file's value, a field it
\* lacks has its default (enabled, every 24 hours, 48 hours, 100 files, 100 MB),
\* and with no file or an unreadable one every field has its default.
C13_ConfigTotalWithDefaults ==
    run.outcome # "none" =>
        /\ DOMAIN run.config = ConfigFields
        /\ \A k \in ConfigFields :
               run.config[k] =
                   IF Readable(configFile) /\ k \in DOMAIN configFile
                   THEN configFile[k]
                   ELSE [auto_cleanup_enabled |-> TRUE,
                         cleanup_interval_hours |-> 24,
                         max_file_age_hours |-> 48,
                         max_files_count |-> 100,
                         max_total_size_mb |-> 100][k]

\* a run loaded a settings file that sets the age limit to 60 hours and says
\* nothing about the interval
C13_Witness ==
    /\ run.outcome # "none"
    /\ Readable(configFile)
    /\ "max_file_age_hours" \in DOMAIN configFile
    /\ configFile.max_file_age_hours = 60
    /\ "cleanup_interval_hours" \notin DOMAIN configFile
    /\ run.config.max_file_age_hours = 60
    /\ run.config.cleanup_interval_hours = 24

\* a run loaded a settings file that json.load rejects
C13_UnreadableLoaded ==
    /\ run.outcome # "none"
    /\ ~Readable(configFile)


(***************************************************************************)
(* Claims about the capture commands, checked under SpecChannel.           *)
(***************************************************************************)

\* the sub-captures a command makes
SubCaptures(c) ==
    {Script(c)[i].fn : i \in DOMAIN Script(c)}
        \cap {"capture_page_info", "capture_dom", "capture_network"}

\* C14: an exception out of a channel call made for a sub-capture ends that
\* sub-capture with its empty result and goes no further: the sub-captures
\* after it are still made, the data record is built, and the command does not
\* end with that exception.
C14_SubCaptureFailuresContained ==
    /\ \A fn \in capture.failed : capture.subs[fn] = "empty"
    /\ (capture.enabled /\ SubCaptures(cmd) # {}) =>
           /\ capture.outcome # "raised"
           /\ pc \in {"save", "closing", "done"} =>
                  /\ \A fn \in SubCaptures(cmd) : capture.subs[fn] # "none"
                  /\ capture.record

\* capture_page ended with its record written although a channel call raised
\* in each of its three sub-captures
C14_Witness ==
    /\ cmd = "capture_page"
    /\ pc = "done"
    /\ capture.failed = {"capture_page_info", "capture_dom", "capture_network"}
    /\ capture.record
    /\ capture.outcome = "saved"

\* C15: a command whose connection attempt fails ends at once, with no request
\* built or written, the id counter at 0 and nothing written or printed; and
\* no other failure aborts a command: one that connected ends with its output.
C15_OnlyConnectFailureAborts ==
    /\ pc = "aborted" =>
           /\ message_id = 0
           /\ assigned = << >>
           /\ written = << >>
           /\ capture = NoCapture
    /\ pc = "done" => capture.outcome = "saved"

(***************************************************************************)
(* Claims about the remote command interpreter, checked under SpecRemote.  *)
(***************************************************************************)

\* the call that returned was given a command whose first word is this verb
Ran(verb) ==
    /\ rc = "returned"
    /\ Split(command) # << >>
    /\ Lower(Split(command)[1]) = verb

\* the word after the verb, as it was typed
TypedUrl == IF Len(Split(command)) >= 2 THEN Split(command)[2] ELSE ""

\* C16: "get u" without auto-capture makes one driver call, the navigation to
\* u as typed, and when that call returns the result is "Navigated to: u".
C16_GetReturnsNavigated ==
    (Ran("get") /\ ~auto_capture) =>
        /\ Len(done) = 1
        /\ done[1].step.driver
        /\ done[1].step.call = "get"
        /\ done[1].step.arg = <<TypedUrl>>
        /\ ~done[1].raised => result = Value("str", <<"Navigated to: ", TypedUrl>>)

\* "GET U1" without auto-capture navigated and returned
C16_Witness ==
    /\ Ran("get")
    /\ ~auto_capture
    /\ command = <<"GET", " ", "U1">>
    /\ ~done[1].raised
    /\ result = Value("str", <<"Navigated to: ", "U1">>)

\* C17: "get u" with auto-capture, once the navigation returned: the navigation
\* is called once, nothing is raised to the caller, and when a step after the
\* navigation fails the result is the navigation status with the failure
\* reason appended (the composite result otherwise).
C17_AutoCaptureBestEffort ==
    (Ran("get") /\ auto_capture /\ ~done[1].raised) =>
        /\ Cardinality({i \in DOMAIN done : done[i].step.call = "get"}) = 1
        /\ result.kind # "raised"
        /\ IF \E i \in 2..Len(done) : done[i].raised
           THEN result = Value("str", <<"Navigated to: ", TypedUrl,
                                        " (auto-capture failed: ", "e", ")">>)
           ELSE /\ result.kind = "composite"
                /\ result.parts[1] = "Navigated to: "
                /\ result.parts[2] = TypedUrl

\* the conversion of the screenshot failed after the navigation, the script
\* and the screenshot went through
C17_Witness ==
    /\ Ran("get")
    /\ auto_capture
    /\ Len(done) = 5
    /\ done[5].step.site = "convert"
    /\ done[5].raised
    /\ result.kind = "str"

\* C18: a command whose verb has no branch goes to the fallback, which hands
\* the command text as given to the driver and returns what comes back, or the
\* "Unknown command" string when the evaluation fails; a command whose verb
\* has a branch never reaches the fallback.
C18_UnknownVerbFallsBack ==
    (rc = "returned" /\ Split(command) # << >>) =>
        IF Lower(Split(command)[1]) \in BuiltIn
        THEN \A i \in DOMAIN done : done[i].step.site # "fallback"
        ELSE /\ Len(done) = 1
             /\ done[1].step.site = "fallback"
             /\ done[1].step.arg = command
             /\ IF done[1].raised
                THEN result = Value("str", <<"Unknown command: ", Lower(Split(command)[1])>>)
                ELSE done[1].step.driver /\ result.kind = "value"

\* "quit()" went through the fallback to the driver and its result came back
C18_Witness ==
    /\ rc = "returned"
    /\ command = <<"quit()">>
    /\ done[1].step.site = "fallback"
    /\ ~done[1].raised
    /\ result.kind = "value"

\* C19: every call returns a value: None, a string, a driver value or the
\* composite, and a string when a step raised; an empty or whitespace-only
\* command returns None without a step being made.
C19_NeverRaises ==
    rc = "returned" =>
        /\ result.kind \in {"None", "str", "value", "composite"}
        /\ (\E i \in DOMAIN done : done[i].raised) => result.kind = "str"
        /\ Split(command) = << >> => (result.kind = "None" /\ done = << >>)

\* a driver call outside the auto-capture and the fallback raised and the
\* call returned the "Error: ..." string
C19_Witness ==
    /\ rc = "returned"
    /\ done # << >>
    /\ done[Len(done)].raised
    /\ done[Len(done)].step.site = "main"
    /\ done[Len(done)].step.driver
    /\ result = Value("str", <<"Error: ", "e">>)

\* a whitespace-only command returned None
C19_BlankReturnsNone ==
    /\ rc = "returned"
    /\ command = <<" ", " ">>
    /\ result.kind = "None"

(***************************************************************************)
(* Claims about the scheduler, checked under SpecScheduledRuns (one        *)
(* started scheduler) and SpecScheduler (start, stop and restart).         *)
(***************************************************************************)

\* C12: a scheduled run in which a pass raised comes back to the polling
\* thread like any other: no thread is ended by an exception, a thread ends
\* only once the flag is cleared, and the job that was run, failed or not,
\* stays registered with its next run one interval after the run.
C12_FailedRunKeepsSchedule ==
    \A t \in DOMAIN threads :
        /\ threads[t].pc # "crashed"
        /\ threads[t].pc = "exited" => ~is_running
        /\ threads[t].last.outcome # "none" =>
               LET d == threads[t].last IN
               /\ d.job \in DOMAIN jobs
               /\ jobs[d.job].next_run >= d.at + jobs[d.job].interval * SecondsPerHour

\* a scheduled run failed, and the thread that made it has slept, woken and is
\* polling again while the scheduler is on
C12_Witness ==
    \E t \in DOMAIN threads :
        /\ threads[t].last.outcome = "error"
        /\ threads[t].pc = "pending"
        /\ is_running

\* the threads that are in the polling loop of run_scheduler
Polling == {t \in DOMAIN threads : threads[t].pc \notin {"exited", "crashed"}}

\* C20: at most one scheduler thread is in the polling loop at any time,
\* whatever sequence of start_scheduler, stop_scheduler and autoclean config
\* ran, also when a start follows a stop while the old thread still sleeps.
C20_OneSchedulerThread == Cardinality(Polling) <= 1

(***************************************************************************)
(* Claims about the end of a capture command, checked under SpecChannel.   *)
(***************************************************************************)

\* C30: a command that connected has closed its connection by the time it
\* ends, however it ends (output written, enable_domains or a channel call
\* raised, save_data raised), and once it has ended no request is written to
\* the stream or reaches the browser.
C30_ClosedOnEveryPath ==
    /\ [](pc = "done" => (websocket # None /\ connState = "closed"))
    /\ [][pc = "done" => (written' = written /\ wire' = wire /\ connState' = "closed")]_vars

\* save_data raised after every call of capture_page went through; the
\* connection was closed, and a send_command call made afterwards failed
C30_Witness ==
    /\ pc = "done"
    /\ cmd = "capture_page"
    /\ capture.outcome = "save failed"
    /\ Len(calls) = Len(Script(cmd))
    /\ connState = "closed"
    /\ directResults = <<"ConnectionClosed">>

(***************************************************************************)
(* Claims about the cleanup log and the report of a run, checked under     *)
(* SpecCleanup.                                                            *)
(***************************************************************************)

\* C23: logs/auto_cleanup.log is append-only: no age, count or size pass of a
\* run removes the log file from the logs directory, so the lines written by
\* the runs that logged stay in it.
C23_LogAppendOnly ==
    \A i \in DOMAIN trace : \A e \in trace[i].removed.logs : e.name # LogName

\* the entries the passes of a run deleted from a directory
Deleted(tr, d) == UNION {tr[i].removed[d] : i \in DOMAIN tr}

\* the distinct paths the passes of a run deleted
DeletedPaths(tr) ==
    {<<"data", e.name>> : e \in Deleted(tr, "data")} \cup
    {<<"logs", e.name>> : e \in Deleted(tr, "logs")}

\* the size of the file deleted under a path
PathSize(tr, p) == (CHOOSE e \in Deleted(tr, p[1]) : e.name = p[2]).size

RECURSIVE SumPathSizes(_, _)
SumPathSizes(tr, P) ==
    IF P = {} THEN 0
    ELSE LET p == CHOOSE x \in P : TRUE IN PathSize(tr, p) + SumPathSizes(tr, P \ {p})

\* C27: the file count a run reports is the number of distinct paths its
\* passes deleted, and the byte total it reports is the total size of those
\* distinct files: no file's size is counted twice across the three passes.
C27_ReportDeduplicated ==
    (rpc = "idle" /\ run.outcome = "completed") =>
        /\ Cardinality(AllCleanedFiles(trace)) = Cardinality(DeletedPaths(trace))
        /\ TotalSize(trace) = SumPathSizes(trace, DeletedPaths(trace))

(***************************************************************************)
(* Claims about the built-in remote commands, checked under SpecRemote.    *)
(***************************************************************************)

\* the calls on the driver, or on an element it returned, made by the call
DriverCalls == Cardinality({i \in DOMAIN done : done[i].step.driver})

\* the command has the arguments its branch asks for
WellFormed(verb, args) ==
    CASE verb = "find_element" -> FindSyntaxOk(args)
      [] verb = "click" -> args # << >>
      [] verb = "send_keys" -> Len(args) >= 2
      [] verb \in {"smart_scroll", "wait_for_load"} -> ~BadInt(args)
      [] OTHER -> TRUE

\* C25: a built-in command with the arguments its branch asks for (get taken
\* without auto-capture), in which no driver call raises, makes exactly one
\* call on the browser driver.
C25_OneDriverCallPerCommand ==
    (/\ rc = "returned"
     /\ Split(command) # << >>
     /\ Verb(Split(command)) \in BuiltIn
     /\ Verb(Split(command)) = "get" => ~auto_capture
     /\ WellFormed(Verb(Split(command)), Args(Split(command)))
     /\ \A i \in DOMAIN done : ~done[i].raised)
        => DriverCalls = 1

\* the call runs or ran wait_for_load with a timeout int() accepts
Waiting ==
    /\ rc \in {"running", "returned"}
    /\ Split(command) # << >>
    /\ Verb(Split(command)) = "wait_for_load"
    /\ ~BadInt(Args(Split(command)))

\* the budget of the call, in half seconds
Budget == 2 * Timeout(Args(Split(command)))

\* the text after "Page load timeout after "
TypedTimeout == IF Len(Split(command)) >= 2 THEN Split(command)[2] ELSE "10"

\* C26: wait_for_load with a budget of N seconds makes at most 2N readyState
\* polls, each begun before the budget has elapsed, and none when N <= 0; when
\* no driver call raises it returns "Page loaded" exactly when the last poll
\* saw the page complete, and otherwise "Page load timeout after N seconds"
\* once the budget has elapsed.
C26_WaitForLoadBounded ==
    Waiting =>
        /\ Len(done) <= (IF Budget > 0 THEN Budget ELSE 0)
        /\ \A i \in DOMAIN done :
               /\ done[i].step.call = "execute_script"
               /\ Elapsed(SubSeq(done, 1, i - 1)) < Budget
               /\ i < Len(done) => done[i].value = "alt"
        /\ rc = "running" => todo # << >>
        /\ (rc = "returned" /\ \A i \in DOMAIN done : ~done[i].raised) =>
               IF \E i \in DOMAIN done : done[i].value = "ok"
               THEN result = Value("str", <<"Page loaded in ", "seconds">>)
               ELSE /\ result = Value("str", <<"Page load timeout after ", TypedTimeout,
                                               " seconds">>)
                    /\ Elapsed(done) >= Budget

\* "wait_for_load 5" polled ten times, the page never complete, and returned
\* the timeout status
C26_Witness ==
    /\ Waiting
    /\ rc = "returned"
    /\ Budget = 10
    /\ Len(done) = 10
    /\ \A i \in DOMAIN done : done[i].value = "alt"
    /\ result = Value("str", <<"Page load timeout after ", "5", " seconds">>)

\* "wait_for_load -1" returned the timeout status without a driver call
C26_NegativeBudget ==
    /\ Waiting
    /\ rc = "returned"
    /\ Budget < 0
    /\ done = << >>
    /\ result = Value("str", <<"Page load timeout after ", "-1", " seconds">>)

(***************************************************************************)
(* Claims about starting, stopping and restarting the scheduler, checked   *)
(* under SpecScheduler.                                                    *)
(***************************************************************************)

\* C28: whatever sequence of start_scheduler, stop_scheduler and autoclean
\* config ran, at most one auto_cleanup job is registered in the schedule, the
\* one with the interval configured last.
C28_OneJobRegistered ==
    /\ Len(jobs) <= 1
    /\ \A j \in DOMAIN jobs :
           jobs[j].interval = LoadConfig(configFile).cleanup_interval_hours

(***************************************************************************)
(* Claims about stopping the scheduler, checked under SpecScheduler.       *)
(***************************************************************************)

\* a scheduler thread calls the job function and a cleanup run begins
RunBegins ==
    /\ \E t \in DOMAIN threads : threads[t].pc = "call" /\ threads'[t].pc = "job"
    /\ rpc' = "age"

\* C22: once stop_scheduler has returned (the flag is cleared, and no start
\* follows), no scheduler thread begins a cleanup run.
C22_NoRunAfterStop == [][~is_running => ~RunBegins]_vars

\* the other half of C22, under FairScheduledRuns: once the flag is cleared the
\* polling thread leaves its loop
C22_StoppedThreadExits ==
    [](~is_running => <>(\A t \in DOMAIN threads : threads[t].pc = "exited"))

(***************************************************************************)
(* Claims about disabled cleanup, checked under SpecDisabling.             *)
(***************************************************************************)

\* C29: while the settings file has cleanup disabled, no step that begins with
\* no run in progress (a call of auto_cleanup by the scheduler thread or in the
\* foreground, a call of start_scheduler) changes a watched directory or the
\* cleanup log, begins a pass, sets is_running or starts a thread.
C29_DisabledDoesNothing ==
    [][(~LoadConfig(configFile).auto_cleanup_enabled /\ rpc = "idle") =>
          /\ fs' = fs
          /\ rpc' = "idle"
          /\ trace' = << >> \/ trace' = trace
          /\ is_running' = FALSE
          /\ Len(threads') = Len(threads)]_vars

\* cleanup was disabled while the scheduler thread was about to call its due
\* job: the call returned without a pass, the files older than the age limit
\* are still there, and the scheduler is off
C29_Witness ==
    /\ ~LoadConfig(configFile).auto_cleanup_enabled
    /\ run.outcome = "disabled"
    /\ rpc = "idle"
    /\ \E t \in DOMAIN threads : threads[t].last.outcome = "disabled"
    /\ \E e \in fs.data.files : IsOld(e, CutoffTime(now, DefaultConfig.max_file_age_hours))
    /\ ~is_running

(***************************************************************************)
(* Claims about the screenshot poller, checked under SpecStreamer.         *)
(***************************************************************************)

\* the stream_worker threads that are in the capture loop
Streaming == {w \in DOMAIN workers : workers[w].pc # "exited"}

\* C21: at most one stream_worker thread is in the capture loop at any time,
\* whatever sequence of start_streaming and stop_streaming ran, also when a
\* start follows a stop whose join timed out.
C21_OneStreamWorker == Cardinality(Streaming) <= 1

(***************************************************************************)
(* The scheduler's run beside a cleanup command.                           *)
(***************************************************************************)

\* the scheduler thread's run and the cleanup command are both inside their
\* loop over the same directory
Overlap ==
    /\ walkers["scheduler"].dir # ""
    /\ walkers["scheduler"].dir = walkers["command"].dir

\* C24: in no interleaving of the scheduler's cleanup run with a cleanup
\* command do both delete from the same watched directory at the same time,
\* and neither fails or cuts its pass short because the other removed a file
\* it had listed
C24_NoConcurrentMutation ==
    /\ ~Overlap
    /\ \A w \in DOMAIN walkers : walkers[w].outcome # "raised"

====
